---------------------------- MODULE Spec2Model ----------------------------
(***************************************************************************)
(* Cover letter generator (document-creation/cover-letter-generator):      *)
(* the Ollama lifecycle manager, the generation client and the retry       *)
(* policy as state machines; the prompt assembler, the post-processor, the *)
(* naming policy and the output writer as functions applied to arguments   *)
(* drawn from bounded sets.                                                *)
(*                                                                         *)
(* Strings are sequences of lexemes (each lexeme a TLA+ string standing    *)
(* for one character or one fixed run of characters); slice, includes and  *)
(* trim work on them as the JavaScript methods do on characters.           *)
(***************************************************************************)
EXTENDS Integers, Sequences, FiniteSets, TLC

VARIABLES
    \* ---- retry policy: one callOllamaGenerateWithRetry call ----
    rPc,          \* "idle" | "calling" | "sleeping" | "returned" | "threw"
    rOpts,        \* the opts argument: retryAttempts, retryDelayMs, model, timeout
    attempt,      \* loop variable of callOllamaGenerateWithRetry
    maxAttempts,
    delayMs,
    lastErr,
    rResult,      \* the text returned, or the error thrown
    callLog,      \* the outcome of every callOllamaGenerate call made, in order
    sleeps,       \* the length of every delay waited, in order
    envRetryAttempts,  \* process.env.OLLAMA_RETRY_ATTEMPTS when the module loads
    \* ---- generation client: one callOllamaGenerate call ----
    gPc,          \* the request: "idle" | "inflight" | "complete" | "errored" | "destroyed"
    gModel,       \* opts.model ?? OLLAMA_MODEL
    gTimeout,     \* opts.timeout ?? OLLAMA_GENERATE_TIMEOUT_MS
    gStatus,      \* res.statusCode (0 before the response callback)
    gBody,        \* the body the backend sends
    gSent,        \* how many lexemes of gBody were delivered by 'data' events
    chunks,       \* the chunks pushed so far
    promise,      \* the promise callOllamaGenerate returned
    gEvents,      \* the events emitted so far: "response", "end", "error", "timeout"
    gSettledBy,   \* the event whose handler settled the promise ("" while pending)
    \* ---- Ollama lifecycle: ensureOllamaRunning, cleanupOllamaIfStarted, main ----
    ollamaProcess,  \* the module's handle: 0 for null, else the pid of a spawned child
    child,          \* pid -> "unborn" | "enoent" | "starting" | "serving" | "dying" | "exited" | "failed"
    externalUp,     \* a backend this program did not spawn serves the base URL
    stopFlag,       \* process.env.COVER_LETTER_STOP_OLLAMA === '1'
    callers,        \* caller -> the state of its ensureOllamaRunning call
    nCalls,         \* ensureOllamaRunning calls made so far
    killed,         \* the pids kill() was called on
    everReady,      \* some ensureOllamaRunning call has returned
    mode,           \* "library" | "index" | "cli": who calls the manager
    mainPc,         \* position of main(): "off" | "start" | "ensuring" | "generating" | "done" | "exited"
    runFailed,      \* main() has an error to propagate
    \* ---- prompt assembler: one buildPromptFromTemplate call ----
    promptFile,     \* the content of the file at DEFAULT_PROMPT_PATH (Undefined: no file)
    job,            \* the job argument
    context,        \* the context argument
    prompt,         \* the string returned (Undefined before the call returns)
    \* ---- post-processor: one postProcessCoverLetterText call ----
    rawText,        \* the argument raw
    cleaned,        \* the string returned (Undefined before the call returns)
    \* ---- naming policy: the three name generators ----
    namingArgs,     \* job.company, the opts, and the clock
    names,          \* the names returned (Undefined before the calls return)
    \* ---- output writer ----
    disk,           \* the directories made and the content of the files written
    written,        \* the writeCoverLetterToFolder calls that returned, in order
    failed,         \* the writeCoverLetterToFolder call that threw last, if the
                    \* last call threw, with the disk it found
    \* main() of generate-from-job-data.js
    bPc,            \* where main() is
    bJobs,          \* jobDataEntries: one job per file, in order
    bIdx,           \* the entry the loop is at
    bPrompt,        \* the prompt of the entry
    bText,          \* the cleaned text of the entry
    bLog,           \* what main() did, in order
    results,        \* results
    exitCode,       \* the exit code of the process, once it has exited
    stderr          \* what console.error wrote

retryVars == <<rPc, rOpts, attempt, maxAttempts, delayMs, lastErr, rResult, callLog, sleeps,
              envRetryAttempts>>
genVars == <<gPc, gModel, gTimeout, gStatus, gBody, gSent, chunks, promise, gEvents,
            gSettledBy>>
mgrVars == <<ollamaProcess, child, externalUp, stopFlag, callers, nCalls, killed, everReady,
            mode, mainPc, runFailed>>
promptVars == <<promptFile, job, context, prompt>>
normVars == <<rawText, cleaned>>
namingVars == <<namingArgs, names>>
persistVars == <<disk, written, failed>>
batchVars == <<bPc, bJobs, bIdx, bPrompt, bText, bLog, results, exitCode, stderr>>
docVars == <<promptVars, normVars, namingVars, persistVars, batchVars>>
svcVars == <<retryVars, genVars, mgrVars>>
vars == <<retryVars, genVars, mgrVars, docVars>>

---------------------------------------------------------------------------
(* Program constants *)

OLLAMA_BASE_URL == "http://localhost:11434"
OLLAMA_MODEL == "llama3.2"
OLLAMA_READY_TIMEOUT_MS == 60000
OLLAMA_POLL_MS == 500
\* timeout: 3000 of the probe's http.request
ProbeTimeoutMs == 3000
\* setTimeout(() => resolve(child), 500) in spawnOllama
SpawnGraceMs == 500
OLLAMA_GENERATE_TIMEOUT_MS == 120000
OLLAMA_RETRY_DELAY_MS == 2000
\* raw.slice(0, 300): the excerpt of the response body in an error message
BodyExcerptLen == 300

\* an optional argument: <<>> when it is undefined, <<v>> when it is v
Undefined == <<>>
Some(v) == <<v>>

---------------------------------------------------------------------------
(* JavaScript values and string methods *)

Min(a, b) == IF a < b THEN a ELSE b
Max(a, b) == IF a > b THEN a ELSE b

\* a ?? b
Nullish(a, b) == IF a = Undefined THEN b ELSE a[1]

\* s.slice(0, n)
SliceTo(s, n) == SubSeq(s, 1, Min(n, Len(s)))

\* s.includes(needle)
Includes(s, needle) ==
    \E i \in 0..(Len(s) - Len(needle)) : SubSeq(s, i + 1, i + Len(needle)) = needle

WhiteSpace == {" ", "\n", "\t"}

RECURSIVE TrimStart(_)
TrimStart(s) ==
    IF s # <<>> /\ Head(s) \in WhiteSpace THEN TrimStart(Tail(s)) ELSE s

RECURSIVE TrimEnd(_)
TrimEnd(s) ==
    IF s # <<>> /\ s[Len(s)] \in WhiteSpace THEN TrimEnd(SubSeq(s, 1, Len(s) - 1)) ELSE s

\* s.trim()
Trim(s) == TrimEnd(TrimStart(s))

Digit == <<"0", "1", "2", "3", "4", "5", "6", "7", "8", "9">>

IsDigit(c) == \E d \in 1..10 : Digit[d] = c

\* a JavaScript number that may be NaN: <<n>> for the number n, <<>> for NaN
NaN == <<>>

\* Math.max(a, b)
MathMax(a, b) == IF a = NaN \/ b = NaN THEN NaN ELSE <<Max(a[1], b[1])>>

\* a + b
Plus(a, b) == IF a = NaN \/ b = NaN THEN NaN ELSE <<a[1] + b[1]>>

\* a <= b
LessEq(a, b) == a # NaN /\ b # NaN /\ a[1] <= b[1]

RECURSIVE DigitsValue(_)
\* the number a run of decimal digits writes
DigitsValue(s) ==
    IF s = <<>> THEN 0
    ELSE 10 * DigitsValue(SubSeq(s, 1, Len(s) - 1))
             + (CHOOSE d \in 0..9 : Digit[d + 1] = s[Len(s)])

\* parseInt(s, 10): blanks, a sign, then the digits up to the first other
\* character; NaN when there is no digit
ParseInt(s) ==
    LET t == TrimStart(s)
        signed == t # <<>> /\ t[1] \in {"-", "+"}
        body == IF signed THEN Tail(t) ELSE t
        n == CHOOSE k \in 0..Len(body) :
                 /\ \A i \in 1..k : IsDigit(body[i])
                 /\ k = Len(body) \/ ~IsDigit(body[k + 1])
    IN  IF n = 0 THEN NaN
        ELSE IF signed /\ t[1] = "-" THEN <<0 - DigitsValue(SubSeq(body, 1, n))>>
        ELSE <<DigitsValue(SubSeq(body, 1, n))>>

\* Math.max(0, parseInt(process.env.OLLAMA_RETRY_ATTEMPTS || '2', 10))
OLLAMA_RETRY_ATTEMPTS ==
    MathMax(<<0>>, ParseInt(IF envRetryAttempts = <<>> THEN <<"2">> ELSE envRetryAttempts))

NoErr == [kind |-> "undefined", message |-> <<>>, code |-> ""]

\* new Error(msg)
NewError(msg) == [kind |-> "Error", message |-> msg, code |-> ""]

\* an error object emitted by the socket, with its code
SocketError(code) == [kind |-> "Error", message |-> <<"connect ", code>>, code |-> code]

---------------------------------------------------------------------------
(* JSON.parse on the lexemes of a response body.  The grammar covers the   *)
(* documents the backend's wire protocol and the tests use: the scalars    *)
(* null, true and 5, a string literal, [], {}, {"done":true} and           *)
(* {"response":<scalar or string>}.  Everything else is a syntax error.    *)

Quote == "\""
KeyResponse == "\"response\""
KeyDone == "\"done\""
\* the escape sequence \n inside a JSON string literal
EscNewline == "\\n"

JsUndefined == [type |-> "undefined", str |-> <<>>]

\* what a lexeme inside a string literal decodes to
Unescape(c) == IF c = EscNewline THEN "\n" ELSE c

\* a raw control character or a quote cannot occur inside a string literal
StringChar(c) == c \notin {Quote, "\n", "\t"}

JsonScalar(toks) ==
    IF toks = <<"null">> THEN [ok |-> TRUE, value |-> [type |-> "null", str |-> <<"null">>]]
    ELSE IF toks = <<"true">> THEN [ok |-> TRUE, value |-> [type |-> "boolean", str |-> <<"true">>]]
    ELSE IF toks = <<"5">> THEN [ok |-> TRUE, value |-> [type |-> "number", str |-> <<"5">>]]
    ELSE IF /\ Len(toks) >= 2
            /\ toks[1] = Quote
            /\ toks[Len(toks)] = Quote
            /\ \A i \in 2..(Len(toks) - 1) : StringChar(toks[i])
         THEN [ok |-> TRUE,
               value |-> [type |-> "string",
                          str |-> [i \in 1..(Len(toks) - 2) |-> Unescape(toks[i + 1])]]]
    ELSE [ok |-> FALSE, value |-> JsUndefined]

\* JSON.parse(raw): ok, the type of the parsed value, and its response member
JSONParse(raw) ==
    IF JsonScalar(raw).ok
        THEN [ok |-> TRUE, type |-> JsonScalar(raw).value.type, response |-> JsUndefined]
    ELSE IF raw = <<"[", "]">>
        THEN [ok |-> TRUE, type |-> "array", response |-> JsUndefined]
    ELSE IF raw = <<"{", "}">> \/ raw = <<"{", KeyDone, ":", "true", "}">>
        THEN [ok |-> TRUE, type |-> "object", response |-> JsUndefined]
    ELSE IF /\ Len(raw) >= 5
            /\ raw[1] = "{" /\ raw[2] = KeyResponse /\ raw[3] = ":" /\ raw[Len(raw)] = "}"
            /\ JsonScalar(SubSeq(raw, 4, Len(raw) - 1)).ok
        THEN [ok |-> TRUE, type |-> "object",
              response |-> JsonScalar(SubSeq(raw, 4, Len(raw) - 1)).value]
    ELSE [ok |-> FALSE, type |-> "undefined", response |-> JsUndefined]

---------------------------------------------------------------------------
(* callOllamaGenerate: the handlers of the request's events.  Each gives   *)
(* the settlement it asks of the promise (and whether it destroys the      *)
(* request).                                                                *)

Resolve(text) == [kind |-> "resolve", text |-> text, err |-> NoErr]
Reject(err) == [kind |-> "reject", text |-> <<>>, err |-> err]

NotFoundStr == <<"not", " ", "found">>

PullHint(model) ==
    <<"\nPull a model first, e.g.: ollama pull ", model,
      ". Or set OLLAMA_MODEL to a model you have.">>

\* StatusErrorMessage with the whole body instead of raw.slice(0, 300)
StatusErrorMessage_WholeBody(status, raw, model) ==
    <<"Ollama /api/generate returned ", ToString(status), ": ">>
        \o raw
        \o (IF status = 404 /\ Includes(raw, NotFoundStr) THEN PullHint(model) ELSE <<>>)

\* StatusErrorMessage with the hint on every status whose body says "not found"
StatusErrorMessage_AnyStatusHint(status, raw, model) ==
    <<"Ollama /api/generate returned ", ToString(status), ": ">>
        \o SliceTo(raw, BodyExcerptLen)
        \o (IF Includes(raw, NotFoundStr) THEN PullHint(model) ELSE <<>>)

\* the message built for res.statusCode !== 200
StatusErrorMessage(status, raw, model) ==
    <<"Ollama /api/generate returned ", ToString(status), ": ">>
        \o SliceTo(raw, BodyExcerptLen)
        \o (IF status = 404 /\ Includes(raw, NotFoundStr) THEN PullHint(model) ELSE <<>>)

\* the try block: JSON.parse(raw), data.response, String(...).trim()
ParseResponseText(raw) ==
    LET data == JSONParse(raw) IN
    IF ~data.ok
        THEN Reject(NewError(<<"Ollama returned invalid JSON: ", "Unexpected token">>))
    ELSE IF data.type = "null"
        \* null.response throws a TypeError inside the try block
        THEN Reject(NewError(<<"Ollama returned invalid JSON: ",
                               "Cannot read properties of null (reading 'response')">>))
    ELSE IF data.response.type \in {"undefined", "null"}
        THEN Resolve(<<>>)
    ELSE Resolve(Trim(data.response.str))

\* res.on('end', ...)
OnEnd(status, raw, model) ==
    IF status # 200
        THEN Reject(NewError(StatusErrorMessage(status, raw, model)))
        ELSE ParseResponseText(raw)

\* req.on('error', ...)
OnError(err) ==
    IF err.code = "ECONNREFUSED"
        THEN Reject(NewError(<<"Cannot connect to Ollama at ", OLLAMA_BASE_URL, ". Is it running?">>))
        ELSE Reject(err)

\* OnTimeout without req.destroy()
OnTimeout_NoDestroy(timeout) ==
    [destroy |-> FALSE,
     settle |-> Reject(NewError(<<"Ollama generate timed out after ", ToString(timeout), "ms">>))]

\* req.on('timeout', ...): req.destroy(), then reject
OnTimeout(timeout) ==
    [destroy |-> TRUE,
     settle |-> Reject(NewError(<<"Ollama generate timed out after ", ToString(timeout), "ms">>))]

\* resolve / reject of a promise: only the first call settles it
Settle(p, s) ==
    IF p.state = "pending"
        THEN [state |-> IF s.kind = "resolve" THEN "fulfilled" ELSE "rejected",
              text |-> s.text, err |-> s.err]
        ELSE p

PendingPromise == [state |-> "pending", text |-> <<>>, err |-> NoErr]
NoPromise == [state |-> "none", text |-> <<>>, err |-> NoErr]

---------------------------------------------------------------------------
(* Bounds of the model and the inputs drawn from them *)

\* longest decoded text of a {"response": "..."} body
MaxTextLen == 3
\* longest plain (non-JSON) body enumerated lexeme by lexeme
MaxBodyLen == 3
\* largest retryAttempts option tried
MaxRetries == 2

SeqsUpTo(S, n) == UNION {[1..k -> S] : k \in 0..n}

\* {"response": "<content>"}
ResponseBody(content) == <<"{", KeyResponse, ":", Quote>> \o content \o <<Quote, "}">>

JsonBodies ==
    {ResponseBody(c) : c \in SeqsUpTo({" ", EscNewline, "H"}, MaxTextLen)}
        \cup {<<"{", KeyResponse, ":", "null", "}">>,
              <<"{", KeyResponse, ":", "5", "}">>,
              <<"{", KeyDone, ":", "true", "}">>,
              <<"{", "}">>, <<"[", "]">>, <<"null">>, <<"5">>, <<Quote, "H", Quote>>,
              \* a raw newline inside a string literal is not JSON
              ResponseBody(<<"H", "\n">>)}

PlainBodies ==
    SeqsUpTo({"not", " ", "found", OLLAMA_MODEL}, MaxBodyLen)
        \cup {<<"{", "\"error\"", ":", Quote, "model", " ", "'", OLLAMA_MODEL, "'", " ">>
                  \o NotFoundStr \o <<Quote, "}">>,
              <<"model", " ", "mistral", " ">> \o NotFoundStr,
              <<"Internal", " ", "Server", " ", "Error">>,
              <<"oops">>}

LongBody(n) == [i \in 1..n |-> "x"]

LongBodies ==
    {LongBody(BodyExcerptLen - 1), LongBody(BodyExcerptLen), LongBody(BodyExcerptLen + 1),
     LongBody(BodyExcerptLen) \o NotFoundStr}

Bodies == JsonBodies \cup PlainBodies \cup LongBodies

Statuses == {200, 201, 404, 500}

TimeoutOpts == {Undefined, Some(100)}

\* the opts of a callOllamaGenerate call: the defaults, or a model and a timeout
GenerateOpts ==
    {[model |-> Undefined, timeout |-> Undefined],
     [model |-> Some("mistral"), timeout |-> Some(100)]}

---------------------------------------------------------------------------
(* callOllamaGenerate as a state machine: the request, the events Node     *)
(* emits on it and on the response, and the promise.                       *)

RECURSIVE Concat(_)
\* Buffer.concat(chunks).toString('utf-8')
Concat(cs) == IF cs = <<>> THEN <<>> ELSE Head(cs) \o Concat(Tail(cs))

GenIdle ==
    /\ gPc = "idle"
    /\ gModel = ""
    /\ gTimeout = 0
    /\ gStatus = 0
    /\ gBody = <<>>
    /\ gSent = 0
    /\ chunks = <<>>
    /\ promise = NoPromise
    /\ gEvents = {}
    /\ gSettledBy = ""

\* callOllamaGenerate(prompt, opts): http.request(...), req.write(body), req.end()
GenCall(opts) ==
    /\ gPc = "idle"
    /\ gPc' = "inflight"
    /\ gModel' = Nullish(opts.model, OLLAMA_MODEL)
    /\ gTimeout' = Nullish(opts.timeout, OLLAMA_GENERATE_TIMEOUT_MS)
    /\ promise' = PendingPromise
    /\ UNCHANGED <<gStatus, gBody, gSent, chunks, gEvents, gSettledBy>>
    /\ UNCHANGED <<retryVars, mgrVars, docVars>>

\* the response callback: (res) => { chunks = []; res.on('data'); res.on('end') }
GenResponse(status, body) ==
    /\ gPc # "idle"
    /\ gEvents \cap {"response", "error"} = {}
    /\ gEvents' = gEvents \cup {"response"}
    /\ gStatus' = status
    /\ gBody' = body
    /\ chunks' = <<>>
    /\ UNCHANGED <<gPc, gModel, gTimeout, gSent, promise, gSettledBy>>
    /\ UNCHANGED <<retryVars, mgrVars, docVars>>

\* res.on('data', (chunk) => chunks.push(chunk)); the next k lexemes arrive
GenData(k) ==
    /\ "response" \in gEvents
    /\ "end" \notin gEvents
    /\ k >= 1
    /\ gSent + k <= Len(gBody)
    /\ chunks' = Append(chunks, SubSeq(gBody, gSent + 1, gSent + k))
    /\ gSent' = gSent + k
    /\ UNCHANGED <<gPc, gModel, gTimeout, gStatus, gBody, promise, gEvents, gSettledBy>>
    /\ UNCHANGED <<retryVars, mgrVars, docVars>>

\* res.on('end', ...)
GenEnd ==
    /\ "response" \in gEvents
    /\ "end" \notin gEvents
    /\ gSent = Len(gBody)
    /\ gEvents' = gEvents \cup {"end"}
    /\ promise' = Settle(promise, OnEnd(gStatus, Concat(chunks), gModel))
    /\ gSettledBy' = IF promise.state = "pending" THEN "end" ELSE gSettledBy
    /\ gPc' = IF gPc = "inflight" THEN "complete" ELSE gPc
    /\ UNCHANGED <<gModel, gTimeout, gStatus, gBody, gSent, chunks>>
    /\ UNCHANGED <<retryVars, mgrVars, docVars>>

\* req.on('error', ...): the connection failed, or the socket was destroyed
GenSocketError(code) ==
    /\ gPc \in {"inflight", "destroyed"}
    /\ gEvents \cap {"error", "end"} = {}
    /\ code = "ECONNREFUSED" => gPc = "inflight" /\ "response" \notin gEvents
    /\ gEvents' = gEvents \cup {"error"}
    /\ promise' = Settle(promise, OnError(SocketError(code)))
    /\ gSettledBy' = IF promise.state = "pending" THEN "error" ELSE gSettledBy
    /\ gPc' = IF gPc = "inflight" THEN "errored" ELSE gPc
    /\ UNCHANGED <<gModel, gTimeout, gStatus, gBody, gSent, chunks>>
    /\ UNCHANGED <<retryVars, mgrVars, docVars>>

\* req.on('timeout', ...)
GenTimeout ==
    /\ gPc # "idle"
    /\ "timeout" \notin gEvents
    /\ gEvents' = gEvents \cup {"timeout"}
    /\ promise' = Settle(promise, OnTimeout(gTimeout).settle)
    /\ gSettledBy' = IF promise.state = "pending" THEN "timeout" ELSE gSettledBy
    /\ gPc' = IF OnTimeout(gTimeout).destroy THEN "destroyed" ELSE gPc
    /\ UNCHANGED <<gModel, gTimeout, gStatus, gBody, gSent, chunks>>
    /\ UNCHANGED <<retryVars, mgrVars, docVars>>

\* a chunk is the rest of the body or its first half
ChunkSizes == {Len(gBody) - gSent, (Len(gBody) - gSent + 1) \div 2}

GenNext ==
    \/ \E o \in GenerateOpts : GenCall(o)
    \/ \E st \in Statuses, b \in Bodies : GenResponse(st, b)
    \/ \E k \in ChunkSizes : GenData(k)
    \/ GenEnd
    \/ \E code \in {"ECONNREFUSED", "ECONNRESET"} : GenSocketError(code)
    \/ GenTimeout

---------------------------------------------------------------------------
(* callOllamaGenerateWithRetry.  Each awaited callOllamaGenerate call      *)
(* settles as its handlers settle it for what the backend does.            *)

\* what the backend does with one request
Respond(status, body) == [type |-> "respond", status |-> status, body |-> body, code |-> ""]
Fail(code) == [type |-> "error", status |-> 0, body |-> <<>>, code |-> code]
Hang == [type |-> "hang", status |-> 0, body |-> <<>>, code |-> ""]

BackendBehaviours ==
    {Respond(200, ResponseBody(<<"H">>)),
     Respond(200, ResponseBody(<<" ", "H", EscNewline>>)),
     Respond(200, <<"not", " ", "found">>),
     Respond(500, <<"oops">>),
     Respond(404, <<"model", " ", "mistral", " ">> \o NotFoundStr),
     Fail("ECONNREFUSED"), Fail("ECONNRESET"), Hang}

\* the settlement of callOllamaGenerate(prompt, opts) when the backend does b
CallOllamaGenerate(b, opts) ==
    CASE b.type = "respond" -> OnEnd(b.status, b.body, Nullish(opts.model, OLLAMA_MODEL))
      [] b.type = "error" -> OnError(SocketError(b.code))
      [] OTHER -> OnTimeout(Nullish(opts.timeout, OLLAMA_GENERATE_TIMEOUT_MS)).settle

\* MaxAttemptsOf without the + 1: the retries counted as the attempts
MaxAttemptsOf_NoFirstAttempt(opts) ==
    MathMax(<<1>>, IF opts.retryAttempts = Undefined THEN OLLAMA_RETRY_ATTEMPTS
                   ELSE opts.retryAttempts)

\* Math.max(1, (opts.retryAttempts ?? OLLAMA_RETRY_ATTEMPTS) + 1)
MaxAttemptsOf(opts) ==
    MathMax(<<1>>, Plus(IF opts.retryAttempts = Undefined THEN OLLAMA_RETRY_ATTEMPTS
                        ELSE opts.retryAttempts, <<1>>))

\* the delay with the per-call option ignored
DelayOf_DefaultOnly(opts) == OLLAMA_RETRY_DELAY_MS

\* opts.retryDelayMs ?? OLLAMA_RETRY_DELAY_MS
DelayOf(opts) == Nullish(opts.retryDelayMs, OLLAMA_RETRY_DELAY_MS)

NoOpts == [retryAttempts |-> Undefined, retryDelayMs |-> Undefined,
           model |-> Undefined, timeout |-> Undefined]

RetryOpts ==
    [retryAttempts : {Undefined} \cup {Some(n) : n \in -1..MaxRetries},
     retryDelayMs : {Undefined, Some(0)},
     model : {Undefined},
     timeout : TimeoutOpts]

NoResult == [kind |-> "none", text |-> <<>>, err |-> NoErr]

RetryIdle ==
    /\ rPc = "idle"
    /\ rOpts = NoOpts
    /\ attempt = 0
    /\ maxAttempts = <<0>>
    /\ delayMs = 0
    /\ lastErr = NoErr
    /\ rResult = NoResult
    /\ callLog = <<>>
    /\ sleeps = <<>>
    /\ envRetryAttempts = <<>>

\* entry: maxAttempts, delayMs, attempt = 1, and the first call is made; when
\* attempt <= maxAttempts is false at once, the loop is skipped and lastErr thrown
RetryCall(opts) ==
    /\ rPc = "idle"
    /\ rOpts' = opts
    /\ maxAttempts' = MaxAttemptsOf(opts)
    /\ delayMs' = DelayOf(opts)
    /\ attempt' = 1
    /\ IF LessEq(<<1>>, MaxAttemptsOf(opts))
          THEN /\ rPc' = "calling"
               /\ UNCHANGED rResult
          ELSE /\ rPc' = "threw"
               /\ rResult' = [kind |-> "threw", text |-> <<>>, err |-> lastErr]
    /\ UNCHANGED <<lastErr, callLog, sleeps, envRetryAttempts>>
    /\ UNCHANGED <<genVars, mgrVars, docVars>>

\* return await callOllamaGenerate(prompt, opts): the call resolved
RetryAttemptResolves(b) ==
    LET out == CallOllamaGenerate(b, rOpts) IN
    /\ rPc = "calling"
    /\ out.kind = "resolve"
    /\ callLog' = Append(callLog, out)
    /\ rResult' = [kind |-> "returned", text |-> out.text, err |-> NoErr]
    /\ rPc' = "returned"
    /\ UNCHANGED <<rOpts, attempt, maxAttempts, delayMs, lastErr, sleeps, envRetryAttempts>>
    /\ UNCHANGED <<genVars, mgrVars, docVars>>

\* catch (err): lastErr = err; then sleep, or leave the loop and throw lastErr
RetryAttemptRejects(b) ==
    LET out == CallOllamaGenerate(b, rOpts) IN
    /\ rPc = "calling"
    /\ out.kind = "reject"
    /\ callLog' = Append(callLog, out)
    /\ lastErr' = out.err
    /\ IF attempt < maxAttempts[1]
          THEN /\ rPc' = "sleeping"
               /\ UNCHANGED <<attempt, rResult>>
          ELSE /\ attempt' = attempt + 1
               /\ rPc' = "threw"
               /\ rResult' = [kind |-> "threw", text |-> <<>>, err |-> out.err]
    /\ UNCHANGED <<rOpts, maxAttempts, delayMs, sleeps, envRetryAttempts>>
    /\ UNCHANGED <<genVars, mgrVars, docVars>>

\* the setTimeout(r, delayMs) promise resolves; attempt++ and the next call
RetryWake ==
    /\ rPc = "sleeping"
    /\ sleeps' = Append(sleeps, delayMs)
    /\ attempt' = attempt + 1
    /\ rPc' = "calling"
    /\ UNCHANGED <<rOpts, maxAttempts, delayMs, lastErr, rResult, callLog, envRetryAttempts>>
    /\ UNCHANGED <<genVars, mgrVars, docVars>>

\* settings of OLLAMA_RETRY_ATTEMPTS in the environment: none, numbers, a
\* negative number, text that is no number, a number followed by text
RetryEnvSettings ==
    {<<>>, <<"0">>, <<"1">>, <<"-", "3">>, <<"a", "b", "c">>, <<" ", "1", "x">>}

\* the module is loaded under some setting of the environment
RetryEnvInit ==
    /\ rPc = "idle"
    /\ rOpts = NoOpts
    /\ attempt = 0
    /\ maxAttempts = <<0>>
    /\ delayMs = 0
    /\ lastErr = NoErr
    /\ rResult = NoResult
    /\ callLog = <<>>
    /\ sleeps = <<>>
    /\ envRetryAttempts \in RetryEnvSettings

RetryNext ==
    \/ \E o \in RetryOpts : RetryCall(o)
    \/ \E b \in BackendBehaviours : RetryAttemptResolves(b)
    \/ \E b \in BackendBehaviours : RetryAttemptRejects(b)
    \/ RetryWake

---------------------------------------------------------------------------
(* The Ollama lifecycle: isOllamaRunning, spawnOllama, waitForOllamaReady, *)
(* ensureOllamaRunning and cleanupOllamaIfStarted, called by concurrent    *)
(* callers of the library or by main().  Time passes only while callers    *)
(* await: each awaiting caller holds the time left until its await         *)
(* completes, and the await that is due first completes first.             *)

\* ensureOllamaRunning calls made in one run
MaxCalls == 2

Callers == {1, 2}
Pids == 1..MaxCalls

\* statuses the probe's GET may receive
ProbeStatuses == {200, 499, 500}

Status(st) == [type |-> "status", status |-> st]
ConnError == [type |-> "error", status |-> 0]
ProbeTimeout == [type |-> "timeout", status |-> 0]
NoProbe == [type |-> "none", status |-> 0]

\* a probe that also takes status 500 for a running server
IsOllamaRunning_UpTo500(outcome) ==
    IF outcome.type = "status"
        THEN outcome.status = 200 \/ outcome.status <= 500
        ELSE FALSE

\* isOllamaRunning(): what the promise resolves to for each way the GET ends
IsOllamaRunning(outcome) ==
    IF outcome.type = "status"
        THEN outcome.status = 200 \/ outcome.status < 500
        ELSE FALSE

NoCallResult == [kind |-> "none", startedByUs |-> FALSE, message |-> <<>>]
Returned(startedByUs) == [kind |-> "ok", startedByUs |-> startedByUs, message |-> <<>>]
Threw(msg) == [kind |-> "error", startedByUs |-> FALSE, message |-> msg]

UnavailableMessage ==
    <<"Ollama is not running at ", OLLAMA_BASE_URL,
      ". Start it with ", "ollama serve", " or run this script without --no-spawn.">>
StartTimeoutMessage(timeoutMs) ==
    <<"Ollama did not become ready within ", ToString(timeoutMs), "ms">>
SpawnFailedMessage ==
    <<"Failed to start Ollama: ", "spawn ollama ENOENT", ". Is Ollama installed and on PATH?">>

IdleCaller ==
    [pc |-> "idle", spawnIfNeeded |-> TRUE, timer |-> 0, slow |-> FALSE, left |-> 0,
     spawned |-> 0, probe |-> NoProbe, afterReady |-> FALSE, result |-> NoCallResult]

\* caller record cr once its call has settled with result r: its timers are gone
CallSettled(cr, r) ==
    [cr EXCEPT !.pc = IF r.kind = "ok" THEN "returned" ELSE "threw", !.result = r,
               !.timer = 0, !.slow = FALSE, !.left = IF r.kind = "ok" THEN 0 ELSE @]

Awaiting(c) == callers[c].pc \in {"probe", "spawnWait", "pollProbe", "pollSleep"}
InWaitLoop(c) == callers[c].pc \in {"pollProbe", "pollSleep"}

HasSettled(c) == callers[c].pc \in {"returned", "threw"}

\* The continuation of a settled call, and the 'error' event of a spawn that
\* failed, run before any timer or response callback.
\* Timers fire no earlier than their delay: the 500 ms timer of a spawn fires late
\* while another call is waiting for readiness, so one call at a time is in that wait.
Running(c) ==
    /\ Awaiting(c)
    /\ \A d \in Callers : ~HasSettled(d)
    /\ \A p \in Pids : child[p] # "enoent"
    /\ callers[c].pc = "spawnWait" => \A d \in Callers : ~InWaitLoop(d)

\* the await of caller c is the next to complete
Due(c) ==
    /\ Running(c)
    /\ \A d \in Callers : Running(d) => callers[c].timer <= callers[d].timer

\* the callers after the time to c's completion has passed
Elapse(c) ==
    LET t == callers[c].timer IN
    [d \in Callers |->
        IF Running(d)
            THEN [callers[d] EXCEPT !.timer = @ - t,
                                    !.left = IF InWaitLoop(d) THEN @ - t ELSE @]
            ELSE callers[d]]

Live(p) == child[p] \in {"starting", "serving"}
ServerUp == externalUp \/ \E p \in Pids : child[p] = "serving"

\* how the probe of caller c can end now
ProbeOutcomes(c) ==
    IF callers[c].slow THEN {ProbeTimeout}
    ELSE IF ServerUp THEN {Status(st) : st \in ProbeStatuses}
    ELSE {ConnError}

\* the request of a probe: it is answered at once, or it times out
ProbeDurations == {0, ProbeTimeoutMs}

MgrIdle ==
    /\ ollamaProcess = 0
    /\ child = [p \in Pids |-> "unborn"]
    /\ externalUp = FALSE
    /\ stopFlag = FALSE
    /\ callers = [c \in Callers |-> IdleCaller]
    /\ nCalls = 0
    /\ killed = {}
    /\ everReady = FALSE
    /\ mode = "library"
    /\ mainPc = "off"
    /\ runFailed = FALSE

\* the module is used as a library: its callers call the exported functions
MgrInit ==
    /\ ollamaProcess = 0
    /\ child = [p \in Pids |-> "unborn"]
    /\ externalUp \in BOOLEAN
    /\ stopFlag \in BOOLEAN
    /\ callers = [c \in Callers |-> IdleCaller]
    /\ nCalls = 0
    /\ killed = {}
    /\ everReady = FALSE
    /\ mode = "library"
    /\ mainPc = "off"
    /\ runFailed = FALSE

\* the program is run as a script: main() of index.js or of generate-from-job-data.js
MainInit ==
    /\ ollamaProcess = 0
    /\ child = [p \in Pids |-> "unborn"]
    /\ externalUp \in BOOLEAN
    /\ stopFlag \in BOOLEAN
    /\ callers = [c \in Callers |-> IdleCaller]
    /\ nCalls = 0
    /\ killed = {}
    /\ everReady = FALSE
    /\ mode \in {"index", "cli"}
    /\ mainPc = "start"
    /\ runFailed = FALSE

\* ensureOllamaRunning(options) up to its first await: the probe is sent
EnsureStart(c, spawnIfNeeded, dur) ==
    /\ callers[c].pc = "idle"
    /\ nCalls < MaxCalls
    /\ nCalls' = nCalls + 1
    /\ callers' = [callers EXCEPT ![c] =
            [IdleCaller EXCEPT !.pc = "probe", !.spawnIfNeeded = spawnIfNeeded,
                               !.timer = dur, !.slow = (dur = ProbeTimeoutMs),
                               !.afterReady = everReady]]

\* a library caller calls ensureOllamaRunning: caller 1 when no call is in flight,
\* caller 2 while caller 1 is in its probe-then-spawn sequence
EnsureCall(c, spawnIfNeeded, dur) ==
    /\ mode = "library"
    /\ \A d \in Callers : ~InWaitLoop(d)
    /\ IF c = 1 THEN \A d \in Callers : ~Awaiting(d) ELSE Awaiting(1)
    /\ EnsureStart(c, spawnIfNeeded, dur)
    /\ UNCHANGED <<ollamaProcess, child, externalUp, stopFlag, killed, everReady, mode,
                   mainPc, runFailed>>
    /\ UNCHANGED <<retryVars, genVars, docVars>>

\* if (await isOllamaRunning()) return { startedByUs: false }
EnsureReachable(c, outcome) ==
    /\ callers[c].pc = "probe"
    /\ Due(c)
    /\ outcome \in ProbeOutcomes(c)
    /\ IsOllamaRunning(outcome)
    /\ callers' = [Elapse(c) EXCEPT
            ![c] = CallSettled([@ EXCEPT !.probe = outcome], Returned(FALSE))]
    /\ everReady' = TRUE
    /\ UNCHANGED <<ollamaProcess, child, externalUp, stopFlag, nCalls, killed, mode,
                   mainPc, runFailed>>
    /\ UNCHANGED <<retryVars, genVars, docVars>>

\* the library caller that awaited the call takes its result
Resume(c) ==
    /\ mode = "library"
    /\ HasSettled(c)
    /\ callers' = [callers EXCEPT ![c] = IdleCaller]
    /\ UNCHANGED <<ollamaProcess, child, externalUp, stopFlag, nCalls, killed, everReady,
                   mode, mainPc, runFailed>>
    /\ UNCHANGED <<retryVars, genVars, docVars>>

\* if (!spawnIfNeeded) throw new Error(`Ollama is not running at ...`)
EnsureUnavailable(c, outcome) ==
    /\ callers[c].pc = "probe"
    /\ Due(c)
    /\ outcome \in ProbeOutcomes(c)
    /\ ~IsOllamaRunning(outcome)
    /\ ~callers[c].spawnIfNeeded
    /\ callers' = [Elapse(c) EXCEPT
            ![c] = CallSettled([@ EXCEPT !.probe = outcome], Threw(UnavailableMessage))]
    /\ UNCHANGED <<ollamaProcess, child, externalUp, stopFlag, nCalls, killed, everReady,
                   mode, mainPc, runFailed>>
    /\ UNCHANGED <<retryVars, genVars, docVars>>

\* the next unused pid
NextPid == CHOOSE p \in Pids : child[p] = "unborn" /\ \A q \in Pids : q < p => child[q] # "unborn"

\* await spawnOllama(): spawn('ollama', ['serve']), ollamaProcess = child, and the
\* 500 ms timer that resolves the promise.  The spawn works or fails (ENOENT).
EnsureSpawn(c, outcome, found) ==
    /\ callers[c].pc = "probe"
    /\ Due(c)
    /\ outcome \in ProbeOutcomes(c)
    /\ ~IsOllamaRunning(outcome)
    /\ callers[c].spawnIfNeeded
    /\ \E p \in Pids : child[p] = "unborn"
    /\ child' = [child EXCEPT ![NextPid] = IF found THEN "starting" ELSE "enoent"]
    /\ ollamaProcess' = NextPid
    /\ callers' = [Elapse(c) EXCEPT ![c].pc = "spawnWait", ![c].probe = outcome,
                                    ![c].spawned = NextPid, ![c].timer = SpawnGraceMs]
    /\ UNCHANGED <<externalUp, stopFlag, nCalls, killed, everReady, mode, mainPc, runFailed>>
    /\ UNCHANGED <<retryVars, genVars, docVars>>

\* child.on('error', ...): ollamaProcess = null and the spawn promise rejects
ChildError(p) ==
    /\ child[p] = "enoent"
    /\ child' = [child EXCEPT ![p] = "failed"]
    /\ ollamaProcess' = 0
    /\ callers' = [c \in Callers |->
            IF callers[c].pc = "spawnWait" /\ callers[c].spawned = p
                THEN CallSettled(callers[c], Threw(SpawnFailedMessage))
                ELSE callers[c]]
    /\ UNCHANGED <<externalUp, stopFlag, nCalls, killed, everReady, mode, mainPc, runFailed>>
    /\ UNCHANGED <<retryVars, genVars, docVars>>

\* a poll that gives up at the deadline itself, not after it
Poll_AtDeadline(cs, c, dur) ==
    IF cs[c].left <= 0
        THEN [cs EXCEPT ![c] = CallSettled(@, Threw(StartTimeoutMessage(OLLAMA_READY_TIMEOUT_MS)))]
        ELSE [cs EXCEPT ![c].pc = "pollProbe", ![c].timer = dur,
                        ![c].slow = (dur = ProbeTimeoutMs)]

\* poll(): the deadline check, then the probe is sent
Poll(cs, c, dur) ==
    IF cs[c].left < 0
        THEN [cs EXCEPT ![c] = CallSettled(@, Threw(StartTimeoutMessage(OLLAMA_READY_TIMEOUT_MS)))]
        ELSE [cs EXCEPT ![c].pc = "pollProbe", ![c].timer = dur,
                        ![c].slow = (dur = ProbeTimeoutMs)]

\* the spawn promise resolves; waitForOllamaReady(): deadline = Date.now() + timeoutMs, poll()
WaitForOllamaReady(c, dur) ==
    /\ callers[c].pc = "spawnWait"
    /\ Due(c)
    /\ child[callers[c].spawned] # "enoent"
    /\ callers' = Poll([Elapse(c) EXCEPT ![c].left = OLLAMA_READY_TIMEOUT_MS], c, dur)
    /\ UNCHANGED <<ollamaProcess, child, externalUp, stopFlag, nCalls, killed, everReady,
                   mode, mainPc, runFailed>>
    /\ UNCHANGED <<retryVars, genVars, docVars>>

\* isOllamaRunning().then((ok) => { if (ok) resolve(); ... }): ready, ensureOllamaRunning
\* returns { startedByUs: true }
PollReady(c, outcome) ==
    /\ callers[c].pc = "pollProbe"
    /\ Due(c)
    /\ outcome \in ProbeOutcomes(c)
    /\ IsOllamaRunning(outcome)
    /\ callers' = [Elapse(c) EXCEPT
            ![c] = CallSettled([@ EXCEPT !.probe = outcome], Returned(TRUE))]
    /\ everReady' = TRUE
    /\ UNCHANGED <<ollamaProcess, child, externalUp, stopFlag, nCalls, killed, mode,
                   mainPc, runFailed>>
    /\ UNCHANGED <<retryVars, genVars, docVars>>

\* ... setTimeout(poll, OLLAMA_POLL_MS): not ready yet
PollNotReady(c, outcome) ==
    /\ callers[c].pc = "pollProbe"
    /\ Due(c)
    /\ outcome \in ProbeOutcomes(c)
    /\ ~IsOllamaRunning(outcome)
    /\ callers' = [Elapse(c) EXCEPT ![c].pc = "pollSleep", ![c].probe = outcome,
                                    ![c].timer = OLLAMA_POLL_MS]
    /\ UNCHANGED <<ollamaProcess, child, externalUp, stopFlag, nCalls, killed, everReady,
                   mode, mainPc, runFailed>>
    /\ UNCHANGED <<retryVars, genVars, docVars>>

\* the poll timer fires: poll()
PollAgain(c, dur) ==
    /\ callers[c].pc = "pollSleep"
    /\ Due(c)
    /\ callers' = Poll(Elapse(c), c, dur)
    /\ UNCHANGED <<ollamaProcess, child, externalUp, stopFlag, nCalls, killed, everReady,
                   mode, mainPc, runFailed>>
    /\ UNCHANGED <<retryVars, genVars, docVars>>

\* the spawned server starts to serve the base URL (the port is free)
ChildServes(p) ==
    /\ child[p] = "starting"
    /\ ~ServerUp
    /\ child' = [child EXCEPT ![p] = "serving"]
    /\ UNCHANGED <<ollamaProcess, externalUp, stopFlag, callers, nCalls, killed, everReady,
                   mode, mainPc, runFailed>>
    /\ UNCHANGED <<retryVars, genVars, docVars>>

\* child.on('exit', ...): a killed child, or one that finds the port taken, exits;
\* ollamaProcess = null (no handler runs once the program has exited)
ChildExit(p) ==
    /\ child[p] = "dying" \/ (child[p] = "starting" /\ ServerUp)
    /\ child' = [child EXCEPT ![p] = "exited"]
    /\ ollamaProcess' = IF mainPc = "exited" THEN ollamaProcess ELSE 0
    /\ UNCHANGED <<externalUp, stopFlag, callers, nCalls, killed, everReady, mode, mainPc,
                   runFailed>>
    /\ UNCHANGED <<retryVars, genVars, docVars>>

\* child.kill(): a running child gets SIGTERM and will exit
Kill(ch, p) == [ch EXCEPT ![p] = IF ch[p] \in {"starting", "serving"} THEN "dying" ELSE @]

\* cleanupOllamaIfStarted(): what it kills (0 for nothing)
CleanupTarget == IF ollamaProcess # 0 /\ stopFlag THEN ollamaProcess ELSE 0

\* a cleanup that kills and keeps the handle
Cleanup_KeepHandle ==
    IF CleanupTarget # 0
        THEN /\ child' = Kill(child, CleanupTarget)
             /\ killed' = killed \cup {CleanupTarget}
             /\ UNCHANGED ollamaProcess
        ELSE UNCHANGED <<child, killed, ollamaProcess>>

\* the effect of cleanupOllamaIfStarted() on the handle, the children and the kills
Cleanup ==
    IF CleanupTarget # 0
        THEN /\ child' = Kill(child, CleanupTarget)
             /\ killed' = killed \cup {CleanupTarget}
             /\ ollamaProcess' = 0
        ELSE UNCHANGED <<child, killed, ollamaProcess>>

\* a library caller calls cleanupOllamaIfStarted(), between its calls
CleanupCall ==
    /\ mode = "library"
    /\ nCalls > 0
    /\ \A c \in Callers : callers[c].pc = "idle"
    /\ Cleanup
    /\ UNCHANGED <<externalUp, stopFlag, callers, nCalls, everReady, mode, mainPc, runFailed>>
    /\ UNCHANGED <<retryVars, genVars, docVars>>

\* main(): ... const { startedByUs } = await ensureOllamaRunning({ spawnIfNeeded: true })
MainEnsure(dur) ==
    /\ mainPc = "start"
    /\ EnsureStart(1, TRUE, dur)
    /\ mainPc' = "ensuring"
    /\ UNCHANGED <<ollamaProcess, child, externalUp, stopFlag, killed, everReady, mode,
                   runFailed>>
    /\ UNCHANGED <<retryVars, genVars, docVars>>

\* main(): the backend is there, the try block starts to generate the letters
MainGenerate ==
    /\ mainPc = "ensuring"
    /\ callers[1].pc = "returned"
    /\ mainPc' = "generating"
    /\ UNCHANGED <<ollamaProcess, child, externalUp, stopFlag, callers, nCalls, killed,
                   everReady, mode, runFailed>>
    /\ UNCHANGED <<retryVars, genVars, docVars>>

\* main(): every letter is written; finally { cleanupOllamaIfStarted() }
MainSucceeds ==
    /\ mainPc = "generating"
    /\ Cleanup
    /\ mainPc' = "done"
    /\ UNCHANGED <<externalUp, stopFlag, callers, nCalls, everReady, mode, runFailed>>
    /\ UNCHANGED <<retryVars, genVars, docVars>>

\* main().catch((err) => { ... }) of index.js kills the child it finds in ollamaProcess;
\* the catch of generate-from-job-data.js only logs and exits
CatchTarget(handle) == IF mode = "index" THEN handle ELSE 0

\* the catch handler of main() and process.exit(1), with `handle` in ollamaProcess
Catch(ch, kl, handle) ==
    /\ child' = (IF CatchTarget(handle) # 0 THEN Kill(ch, CatchTarget(handle)) ELSE ch)
    /\ killed' = (IF CatchTarget(handle) # 0 THEN kl \cup {CatchTarget(handle)} ELSE kl)
    /\ ollamaProcess' = handle
    /\ runFailed' = TRUE
    /\ mainPc' = "exited"

\* main(): a generation or a write throws inside the try block: the finally block runs
\* cleanupOllamaIfStarted(), then main() rejects and the catch handler runs
MainFails ==
    /\ mainPc = "generating"
    /\ LET t == CleanupTarget
           ch == IF t # 0 THEN Kill(child, t) ELSE child
           kl == IF t # 0 THEN killed \cup {t} ELSE killed
           handle == IF t # 0 THEN 0 ELSE ollamaProcess
       IN Catch(ch, kl, handle)
    /\ UNCHANGED <<externalUp, stopFlag, callers, nCalls, everReady, mode>>
    /\ UNCHANGED <<retryVars, genVars, docVars>>

\* main(): ensureOllamaRunning threw (it is called outside the try block, so no finally):
\* the catch handler runs
MainEnsureFails ==
    /\ mainPc = "ensuring"
    /\ callers[1].pc = "threw"
    /\ Catch(child, killed, ollamaProcess)
    /\ UNCHANGED <<externalUp, stopFlag, callers, nCalls, everReady, mode>>
    /\ UNCHANGED <<retryVars, genVars, docVars>>

\* the steps of a call of ensureOllamaRunning and of the children it spawned
CallNext ==
    \/ \E c \in Callers : \E o \in ProbeOutcomes(c) : EnsureReachable(c, o)
    \/ \E c \in Callers, found \in BOOLEAN : \E o \in ProbeOutcomes(c) : EnsureSpawn(c, o, found)
    \/ \E p \in Pids : ChildError(p)
    \/ \E c \in Callers, dur \in ProbeDurations : WaitForOllamaReady(c, dur)
    \/ \E c \in Callers : \E o \in ProbeOutcomes(c) : PollReady(c, o)
    \/ \E c \in Callers : \E o \in ProbeOutcomes(c) : PollNotReady(c, o)
    \/ \E c \in Callers, dur \in ProbeDurations : PollAgain(c, dur)
    \/ \E p \in Pids : ChildServes(p)
    \/ \E p \in Pids : ChildExit(p)

MgrNext ==
    \/ \E c \in Callers, s \in BOOLEAN, dur \in ProbeDurations : EnsureCall(c, s, dur)
    \/ \E c \in Callers : \E o \in ProbeOutcomes(c) : EnsureUnavailable(c, o)
    \/ \E c \in Callers : Resume(c)
    \/ CleanupCall
    \/ CallNext

MainNext ==
    \/ \E dur \in ProbeDurations : MainEnsure(dur)
    \/ MainGenerate
    \/ MainSucceeds
    \/ MainFails
    \/ MainEnsureFails
    \/ CallNext

---------------------------------------------------------------------------
(* The prompt assembler: buildPromptFromTemplate.                          *)
(*                                                                         *)
(* The field values are sequences of characters; a placeholder-shaped run  *)
(* of characters such as {{company}} is written as one lexeme, and so is   *)
(* each stretch of fixed text of the template.  The values that carry a    *)
(* placeholder lexeme are far shorter than the cuts.                       *)

\* (job.description || '').slice(0, 12000)
DescriptionLimit == 12000
\* (context.resumeSnippet || '').slice(0, 3000)
ResumeLimit == 3000

\* the keys of vars, in the order Object.entries yields them
PromptKeys ==
    <<"company", "positionName", "location", "type", "description", "applicantName",
      "resumeSnippet", "coverLetterSection">>

\* the text {{key}}
Placeholder ==
    [company |-> "{{company}}", positionName |-> "{{positionName}}",
     location |-> "{{location}}", type |-> "{{type}}",
     description |-> "{{description}}", applicantName |-> "{{applicantName}}",
     resumeSnippet |-> "{{resumeSnippet}}",
     coverLetterSection |-> "{{coverLetterSection}}"]

InstructionLines ==
    "\n\nInstructions:\n- Address the letter to the hiring team [...]\n- Output only the cover letter text, no meta-commentary or markdown.\n\nCover letter:\n"

DEFAULT_PROMPT_TEMPLATE ==
    <<"You are a professional cover letter writer. [...]\n\nCompany: ", Placeholder.company,
      "\nRole: ", Placeholder.positionName,
      "\nLocation: ", Placeholder.location,
      "\nJob type: ", Placeholder.type,
      "\n\nJob description:\n---\n", Placeholder.description,
      "\n---\n\nApplicant context (use only if provided):\n", Placeholder.applicantName,
      "\n", Placeholder.resumeSnippet,
      "\n\n", Placeholder.coverLetterSection,
      InstructionLines>>

NotProvided == <<"(Not provided)">>

\* a || b on strings
Or(a, b) == IF a = <<>> THEN b ELSE a

\* the coverLetterSection of buildPromptFromTemplate
CoverLetterSection(sampleCoverLetter) ==
    IF sampleCoverLetter # <<>>
    THEN <<"Use the following cover letter as an example to base your tone, format and content off:\n\n---\n">>
             \o sampleCoverLetter \o <<"\n---\n\n">>
    ELSE <<>>

\* the MUTANT of PromptVars: the values are not cut
PromptVars_Uncut(j, c) ==
    [company |-> j.company, positionName |-> j.positionName, location |-> j.location,
     type |-> j.type, description |-> j.description,
     applicantName |-> Or(c.applicantName, NotProvided),
     resumeSnippet |-> Or(c.resumeSnippet, NotProvided),
     coverLetterSection |-> CoverLetterSection(Trim(c.sampleCoverLetter))]

\* the object vars of buildPromptFromTemplate
PromptVars(j, c) ==
    [company |-> Or(j.company, <<>>),
     positionName |-> Or(j.positionName, <<>>),
     location |-> Or(j.location, <<>>),
     type |-> Or(j.type, <<>>),
     description |-> SliceTo(Or(j.description, <<>>), DescriptionLimit),
     applicantName |-> Or(Or(c.applicantName, <<>>), NotProvided),
     resumeSnippet |-> Or(SliceTo(Or(c.resumeSnippet, <<>>), ResumeLimit), NotProvided),
     coverLetterSection |-> CoverLetterSection(Trim(Or(c.sampleCoverLetter, <<>>)))]

RECURSIVE ReplaceAll(_, _, _)
\* text.replace(new RegExp(pattern, 'g'), () => value): every occurrence of the
\* pattern, left to right, gives way to the value as it is
ReplaceAll(text, pattern, value) ==
    LET hits == {i \in 1..Len(text) : text[i] = pattern}
    IN  IF hits = {} THEN text
        ELSE LET i == CHOOSE h \in hits : \A k \in hits : h <= k
             IN  SubSeq(text, 1, i - 1) \o value
                     \o ReplaceAll(SubSeq(text, i + 1, Len(text)), pattern, value)

RECURSIVE ReplaceKeys(_, _, _)
\* the loop over Object.entries(vars), from the k-th key on
ReplaceKeys(template, v, k) ==
    IF k > Len(PromptKeys) THEN template
    ELSE ReplaceKeys(ReplaceAll(template, Placeholder[PromptKeys[k]], v[PromptKeys[k]]),
                     v, k + 1)

\* ensurePromptFileExists(), then fs.readFileSync(DEFAULT_PROMPT_PATH, 'utf-8')
EnsuredPromptFile(file) == Nullish(file, DEFAULT_PROMPT_TEMPLATE)

BuildPromptFromTemplate(file, j, c) ==
    ReplaceKeys(EnsuredPromptFile(file), PromptVars(j, c), 1)

\* how many characters past a cut the long inputs reach
MaxOver == 1

\* n times the character c
Run(n, c) == [i \in 1..n |-> c]

\* a template somebody edited: a placeholder twice, others missing
EditedTemplate ==
    <<"Write to ", Placeholder.company, " about ", Placeholder.description, " at ",
      Placeholder.company, " for ", Placeholder.resumeSnippet>>

PromptFiles == {Undefined, Some(EditedTemplate)}

Companies == {<<>>, <<"A", "c", "m", "e">>, <<"$", "&">>, <<Placeholder.resumeSnippet>>}

Descriptions ==
    {<<>>, <<"P", "a", "y", " ", "$", "1", "0", "0">>,
     <<Placeholder.company>>, <<"c", "f", " ", Placeholder.applicantName>>,
     Run(DescriptionLimit - 1, "x")}
        \cup {Run(DescriptionLimit, "x") \o Run(k, "X") : k \in 0..MaxOver}

ResumeSnippets ==
    {<<>>, <<"N", "o", "d", "e">>, <<"$", "$">>, Run(ResumeLimit - 1, "r")}
        \cup {Run(ResumeLimit, "r") \o Run(k, "R") : k \in 0..MaxOver}

ApplicantNames == {<<>>, <<"J", "a", "n", "e">>}

SampleCoverLetters == {<<>>, <<" ", "\n">>, <<" ", "D", "e", "a", "r", "\n">>}

Jobs ==
    [company : Companies, positionName : {<<"D", "e", "v">>}, location : {<<>>},
     type : {<<"$", "'">>}, description : Descriptions]

Contexts ==
    [resumeSnippet : ResumeSnippets, applicantName : ApplicantNames,
     sampleCoverLetter : SampleCoverLetters]

NoJob == [company |-> <<>>, positionName |-> <<>>, location |-> <<>>, type |-> <<>>,
          description |-> <<>>]
NoContext == [resumeSnippet |-> <<>>, applicantName |-> <<>>, sampleCoverLetter |-> <<>>]

PromptIdle ==
    /\ promptFile = Undefined
    /\ job = NoJob
    /\ context = NoContext
    /\ prompt = Undefined

\* the arguments of a call, and the prompt file it finds
PromptInit ==
    /\ promptFile \in PromptFiles
    /\ job \in Jobs
    /\ context \in Contexts
    /\ prompt = Undefined

BuildPrompt ==
    /\ prompt = Undefined
    /\ promptFile' = Some(EnsuredPromptFile(promptFile))
    /\ prompt' = Some(BuildPromptFromTemplate(promptFile, job, context))
    /\ UNCHANGED <<job, context>>
    /\ UNCHANGED <<svcVars, batchVars, normVars, namingVars, persistVars>>

PromptNext == BuildPrompt

---------------------------------------------------------------------------
(* The post-processor: postProcessCoverLetterText.                         *)
(*                                                                         *)
(* The raw text is a sequence of characters; the run of three backquotes   *)
(* that makes a code fence is written as the one lexeme Fence.             *)

Fence == "[fence]"

\* the characters \w matches
WordChars ==
    {"a", "b", "c", "d", "e", "f", "g", "h", "i", "j", "k", "l", "m",
     "n", "o", "p", "q", "r", "s", "t", "u", "v", "w", "x", "y", "z",
     "A", "B", "C", "D", "E", "F", "G", "H", "I", "J", "K", "L", "M",
     "N", "O", "P", "Q", "R", "S", "T", "U", "V", "W", "X", "Y", "Z",
     "0", "1", "2", "3", "4", "5", "6", "7", "8", "9", "_"}

\* a string value, and the values that are not strings
Str(s) == [typeof |-> "string", value |-> s]
NonStrings ==
    {[typeof |-> "undefined", value |-> <<>>], [typeof |-> "object", value |-> <<>>],
     [typeof |-> "number", value |-> <<"4", "2">>]}

\* ^ under the m flag: the start of the text or of a line
LineStart(t, i) == i = 1 \/ t[i - 1] = "\n"

\* $ under the m flag: the end of the text or of a line
LineEnd(t, i) == i = Len(t) + 1 \/ t[i] = "\n"

RECURSIVE SkipWord(_, _)
\* \w* from position i on, greedy: the position after the word characters
SkipWord(t, i) == IF i <= Len(t) /\ t[i] \in WordChars THEN SkipWord(t, i + 1) ELSE i

\* where the group starts for a fence opening at i: after \w* and \n?
GroupStart(t, i) ==
    LET w == SkipWord(t, i + 1)
    IN  IF w <= Len(t) /\ t[w] = "\n" THEN w + 1 ELSE w

\* a closing fence at q: the fence, then \s*, then $
Closes(t, q) ==
    /\ q <= Len(t)
    /\ t[q] = Fence
    /\ \E s \in 0..(Len(t) - q) :
          /\ \A k \in 1..s : t[q + k] \in WhiteSpace
          /\ LineEnd(t, q + 1 + s)

\* the positions where the codeFence pattern matches
FenceOpenings(t) ==
    {i \in 1..Len(t) :
        /\ LineStart(t, i)
        /\ t[i] = Fence
        /\ \E q \in GroupStart(t, i)..Len(t) : Closes(t, q)}

\* text.match(codeFence): Undefined for null, else match[1], the group of the
\* leftmost match, as short as it can be
MatchCodeFence(t) ==
    IF FenceOpenings(t) = {} THEN Undefined
    ELSE LET i == CHOOSE o \in FenceOpenings(t) : \A k \in FenceOpenings(t) : o <= k
             p == GroupStart(t, i)
             q == CHOOSE c \in p..Len(t) :
                      Closes(t, c) /\ \A k \in p..(c - 1) : ~Closes(t, k)
         IN  Some(SubSeq(t, p, q - 1))

RECURSIVE NewlineRun(_, _)
\* how many newlines stand at position i and after it
NewlineRun(t, i) == IF i <= Len(t) /\ t[i] = "\n" THEN 1 + NewlineRun(t, i + 1) ELSE 0

RECURSIVE CollapseNewlines_ToOne(_)
\* the MUTANT of CollapseNewlines: a run of three or more becomes one newline
CollapseNewlines_ToOne(t) ==
    IF t = <<>> THEN <<>>
    ELSE LET n == NewlineRun(t, 1)
         IN  IF n >= 3 THEN <<"\n">> \o CollapseNewlines_ToOne(SubSeq(t, n + 1, Len(t)))
             ELSE IF n >= 1 THEN SubSeq(t, 1, n) \o CollapseNewlines_ToOne(SubSeq(t, n + 1, Len(t)))
             ELSE <<Head(t)>> \o CollapseNewlines_ToOne(Tail(t))

RECURSIVE CollapseNewlines(_)
\* text.replace(/\n{3,}/g, '\n\n')
CollapseNewlines(t) ==
    IF t = <<>> THEN <<>>
    ELSE LET n == NewlineRun(t, 1)
         IN  IF n >= 3 THEN <<"\n", "\n">> \o CollapseNewlines(SubSeq(t, n + 1, Len(t)))
             ELSE IF n >= 1 THEN SubSeq(t, 1, n) \o CollapseNewlines(SubSeq(t, n + 1, Len(t)))
             ELSE <<Head(t)>> \o CollapseNewlines(Tail(t))

\* the MUTANT of PostProcessCoverLetterText: the newline is always appended
PostProcessCoverLetterText_AlwaysNewline(r) ==
    IF r.typeof # "string" THEN <<"\n">>
    ELSE LET trimmed == Trim(r.value)
             match == MatchCodeFence(trimmed)
             text == CollapseNewlines(IF match # Undefined THEN Trim(match[1]) ELSE trimmed)
         IN  TrimEnd(text) \o <<"\n">>

PostProcessCoverLetterText(r) ==
    IF r.typeof # "string" THEN <<>>
    ELSE LET trimmed == Trim(r.value)
             match == MatchCodeFence(trimmed)
             text == CollapseNewlines(IF match # Undefined THEN Trim(match[1]) ELSE trimmed)
         IN  TrimEnd(text) \o (IF text # <<>> THEN <<"\n">> ELSE <<>>)

\* longest raw text enumerated character by character
MaxRawLen == 5

RawChars == {"a", ".", " ", "\n", Fence}

RawInputs == {Str(s) : s \in SeqsUpTo(RawChars, MaxRawLen)} \cup NonStrings

NormIdle ==
    /\ rawText = Str(<<>>)
    /\ cleaned = Undefined

\* the argument of a call
NormInit ==
    /\ rawText \in RawInputs
    /\ cleaned = Undefined

PostProcess ==
    /\ cleaned = Undefined
    /\ cleaned' = Some(PostProcessCoverLetterText(rawText))
    /\ UNCHANGED rawText
    /\ UNCHANGED <<svcVars, batchVars, promptVars, namingVars, persistVars>>

NormNext == PostProcess

---------------------------------------------------------------------------
(* The naming policy: generateCoverLetterBasename, generateOutputFolderName *)
(* and generateOutputFilename.  Names are sequences of characters.          *)

\* process.env.COVER_LETTER_OUTPUT_FORMAT is not set
COVER_LETTER_OUTPUT_FORMAT == <<"d", "o", "c", "x">>

RECURSIVE NumberToString(_)
\* String(n) for a natural number n
NumberToString(n) == IF n < 10 THEN <<Digit[n + 1]>> ELSE NumberToString(n \div 10) \o <<Digit[(n % 10) + 1]>>

\* s.slice(-n)
SliceLast(s, n) == SubSeq(s, Max(1, Len(s) - n + 1), Len(s))

\* s.padStart(2, '0')
PadStart2(s) == IF Len(s) < 2 THEN Run(2 - Len(s), "0") \o s ELSE s

\* s.replace(/\s+/g, '')
RemoveWhiteSpace(s) == SelectSeq(s, LAMBDA c : c \notin WhiteSpace)

\* s.replace(/[^\w\-]/g, '')
KeepWordAndHyphen(s) == SelectSeq(s, LAMBDA c : c \in WordChars \cup {"-"})

\* s.replace(/-/g, '')
RemoveHyphens(s) == SelectSeq(s, LAMBDA c : c # "-")

\* s.toLowerCase(), for the letters of the format names
ToLowerCase(s) ==
    [i \in 1..Len(s) |->
        IF s[i] = "T" THEN "t" ELSE IF s[i] = "X" THEN "x" ELSE IF s[i] = "D" THEN "d" ELSE s[i]]

\* (job.company || 'Company').replace(/\s+/g, '').replace(/[^\w\-]/g, '') || 'Company'
CompanySlug(company) ==
    Or(KeepWordAndHyphen(RemoveWhiteSpace(Or(company, <<"C", "o", "m", "p", "a", "n", "y">>))),
       <<"C", "o", "m", "p", "a", "n", "y">>)

Applicant == <<"A", "p", "p", "l", "i", "c", "a", "n", "t">>

GenerateCoverLetterBasename(company, opts) ==
    LET dobRaw == Trim(Or(opts.applicantDob, <<>>))
        digits == IF dobRaw # <<>> THEN RemoveHyphens(dobRaw) ELSE <<>>
        dobPart == IF Len(digits) >= 6 THEN SliceLast(digits, 6) ELSE Run(6, "0")
        lastName == Or(RemoveWhiteSpace(Trim(Or(opts.applicantLastName, <<>>))), Applicant)
    IN  dobPart \o <<".">> \o lastName \o <<".">> \o CompanySlug(company)

\* now is the value of new Date(): its full year, its month from 0, its day
GenerateOutputFolderName(company, opts, now) ==
    LET yy == SliceLast(NumberToString(now.year), 2)
        mm == PadStart2(NumberToString(now.month + 1))
        dd == PadStart2(NumberToString(now.date))
        datePart == yy \o mm \o dd
        lastName == Or(Trim(Or(opts.applicantLastName, <<>>)), Applicant)
    IN  datePart \o <<".">> \o lastName \o <<".", "C", "L", ".">> \o CompanySlug(company)

GenerateOutputFilename(company, opts, now) ==
    LET format == ToLowerCase(Or(opts.outputFormat, COVER_LETTER_OUTPUT_FORMAT))
        ext == IF format = <<"d", "o", "c", "x">> THEN <<".", "d", "o", "c", "x">>
               ELSE <<".", "t", "x", "t">>
    IN  GenerateOutputFolderName(company, opts, now) \o ext

CompanyNames ==
    {<<>>, <<" ", " ">>, <<"A", "c", "m", "e">>, <<"A", " ", "c", "-", "e">>, <<"&">>,
     <<"A", "&", "c", "\t", "o">>}

LastNames ==
    {<<>>, <<" ">>, <<"D", "o", "e">>, <<" ", "D", "o", "e", " ">>,
     <<"v", "a", "n", " ", "D", "y", "k">>}

BirthDates ==
    {<<>>, <<"2", "0", "0", "3", "-", "1", "2", "-", "1", "0">>,
     <<"2", "0", "0", "3", "/", "1", "2", "/", "1", "0">>,
     <<"0", "3", "1", "2", "1", "0">>, <<"1", "2", "-", "1", "0">>,
     <<" ", "1", "9", "9", "0", "-", "0", "1", "-", "1", "5", " ">>}

OutputFormats == {<<>>, <<"d", "o", "c", "x">>, <<"T", "X", "T">>, <<"p", "d", "f">>}

Dates == {[year |-> 2026, month |-> 10, date |-> 3], [year |-> 2009, month |-> 0, date |-> 31]}

NamingArgs ==
    [company : CompanyNames, applicantLastName : LastNames, applicantDob : BirthDates,
     outputFormat : OutputFormats, now : Dates]

NamingIdle ==
    /\ namingArgs = [company |-> <<>>, applicantLastName |-> <<>>, applicantDob |-> <<>>,
                     outputFormat |-> <<>>, now |-> [year |-> 2026, month |-> 10, date |-> 3]]
    /\ names = Undefined

\* the job's company, the opts and the clock of the calls
NamingInit ==
    /\ namingArgs \in NamingArgs
    /\ names = Undefined

GenerateNames ==
    /\ names = Undefined
    /\ names' = Some([basename |-> GenerateCoverLetterBasename(namingArgs.company, namingArgs),
                      folderName |-> GenerateOutputFolderName(namingArgs.company, namingArgs,
                                                              namingArgs.now),
                      filename |-> GenerateOutputFilename(namingArgs.company, namingArgs,
                                                          namingArgs.now)])
    /\ UNCHANGED namingArgs
    /\ UNCHANGED <<svcVars, batchVars, promptVars, normVars, persistVars>>

NamingNext == GenerateNames

---------------------------------------------------------------------------
(* The output writer: writeCoverLetterToFolder and textToPdfBuffer, called  *)
(* directly and by the loop of generate-from-job-data.js.                   *)
(*                                                                         *)
(* The disk is the set of directories made and the content of every file   *)
(* written.  A .txt file holds its characters, a .docx file the text of    *)
(* its paragraphs in order, a .pdf file the lines drawn in order (the      *)
(* division into pages is left out).                                       *)

COVERLETTER_BASENAME == <<"c", "o", "v", "e", "r", "l", "e", "t", "t", "e", "r">>

RECURSIVE Split(_)
\* text.split(/\n/)
Split(text) ==
    IF \A i \in 1..Len(text) : text[i] # "\n" THEN <<text>>
    ELSE LET i == CHOOSE k \in 1..Len(text) :
                      text[k] = "\n" /\ \A h \in 1..(k - 1) : text[h] # "\n"
         IN  <<SubSeq(text, 1, i - 1)>> \o Split(SubSeq(text, i + 1, Len(text)))

\* lines.map((line) => new Paragraph({ children: [new TextRun(line || ' ')] }))
Paragraphs(text) == [i \in 1..Len(Split(text)) |-> Or(Split(text)[i], <<" ">>)]

\* the lines textToPdfBuffer draws: page.drawText(line || ' ') for each line of
\* (text || '').trim().split(/\n/)
TextToPdfBuffer(text) == Paragraphs(Trim(Or(text, <<>>)))

\* path.join(dir, name)
PathJoin(dir, name) == dir \o <<"/">> \o name

\* the MUTANT of WriteCoverLetterToFolder: the text is appended to the .txt file
WriteCoverLetterToFolder_Append(fs, folderPath, text, opts) ==
    LET fileBasename == Or(IF opts.basename # Undefined THEN Trim(opts.basename[1]) ELSE <<>>,
                           COVERLETTER_BASENAME)
        base == PathJoin(folderPath, fileBasename)
        txtPath == base \o <<".txt">>
        docxPath == base \o <<".docx">>
        pdfPath == base \o <<".pdf">>
        old == IF txtPath \in DOMAIN fs.files THEN fs.files[txtPath] ELSE <<>>
    IN  [dirs |-> fs.dirs \cup {folderPath},
         files |-> [p \in DOMAIN fs.files \cup {txtPath, docxPath, pdfPath} |->
                       IF p = txtPath THEN old \o text
                       ELSE IF p = docxPath THEN Paragraphs(text)
                       ELSE IF p = pdfPath THEN TextToPdfBuffer(text)
                       ELSE fs.files[p]]]

\* the disk after writeCoverLetterToFolder(folderPath, text, opts) has returned
WriteCoverLetterToFolder(fs, folderPath, text, opts) ==
    LET fileBasename == Or(IF opts.basename # Undefined THEN Trim(opts.basename[1]) ELSE <<>>,
                           COVERLETTER_BASENAME)
        base == PathJoin(folderPath, fileBasename)
        txtPath == base \o <<".txt">>
        docxPath == base \o <<".docx">>
        pdfPath == base \o <<".pdf">>
    IN  [dirs |-> fs.dirs \cup {folderPath},
         files |-> [p \in DOMAIN fs.files \cup {txtPath, docxPath, pdfPath} |->
                       IF p = txtPath THEN text
                       ELSE IF p = docxPath THEN Paragraphs(text)
                       ELSE IF p = pdfPath THEN TextToPdfBuffer(text)
                       ELSE fs.files[p]]]

\* the statements of writeCoverLetterToFolder that can throw: mkdirSync, the
\* write of the .txt, the rendering and write of the .docx, those of the .pdf
WriteSteps == {"mkdir", "txt", "docx", "pdf"}

\* the disk after writeCoverLetterToFolder(folderPath, text, opts) threw at `step`
WriteCoverLetterToFolderThrows(fs, folderPath, text, opts, step) ==
    LET fileBasename == Or(IF opts.basename # Undefined THEN Trim(opts.basename[1]) ELSE <<>>,
                           COVERLETTER_BASENAME)
        base == PathJoin(folderPath, fileBasename)
        txtPath == base \o <<".txt">>
        docxPath == base \o <<".docx">>
        done == IF step = "docx" THEN {txtPath}
                ELSE IF step = "pdf" THEN {txtPath, docxPath}
                ELSE {}
    IN  [dirs |-> IF step = "mkdir" THEN fs.dirs ELSE fs.dirs \cup {folderPath},
         files |-> [p \in DOMAIN fs.files \cup done |->
                       IF p \in done /\ p = txtPath THEN text
                       ELSE IF p \in done /\ p = docxPath THEN Paragraphs(text)
                       ELSE fs.files[p]]]

\* link.match(/\/job\/(\d+)/): Undefined for null, else match[1]; the link is a
\* sequence of characters in which the run /job/ is one lexeme
MatchJobLink(link) ==
    LET hits == {i \in 1..(Len(link) - 1) : link[i] = "/job/" /\ IsDigit(link[i + 1])}
    IN  IF hits = {} THEN Undefined
        ELSE LET i == CHOOSE h \in hits : \A k \in hits : h <= k
                 last == CHOOSE e \in (i + 1)..Len(link) :
                             /\ \A k \in (i + 1)..e : IsDigit(link[k])
                             /\ e = Len(link) \/ ~IsDigit(link[e + 1])
             IN  Some(SubSeq(link, i + 1, last))

\* path.basename(entryPath, path.extname(entryPath)); the extension is the last
\* lexeme of the path
PathStem(entryPath) ==
    LET slashes == {i \in 1..Len(entryPath) : entryPath[i] = "/"}
        from == IF slashes = {} THEN 1
                ELSE 1 + CHOOSE s \in slashes : \A k \in slashes : k <= s
    IN  SubSeq(entryPath, from, Len(entryPath) - 1)

GetJobId(j, entryPath) ==
    IF Trim(j.id) # <<>> THEN Trim(j.id)
    ELSE IF MatchJobLink(Trim(Or(j.link, <<>>))) # Undefined
         THEN MatchJobLink(Trim(Or(j.link, <<>>)))[1]
    ELSE IF entryPath # <<>> /\ PathStem(entryPath) # <<>> THEN PathStem(entryPath)
    ELSE <<"j", "o", "b">>

\* the most persist calls in a behaviour
MaxWrites == 2

PersistTexts ==
    {<<>>, <<"\n">>, <<"a">>, <<"a", "\n">>, <<"\n", "a", "\n">>, <<" ", "a">>,
     <<"a", "\n", "b">>, <<"a", "\n", "\n", "b", "\n">>}

\* the texts postProcessCoverLetterText hands to the loop
CleanedTexts == {<<"a", "\n">>, <<"a", "\n", "\n", "b", "\n">>}

FolderPaths == {<<"o", "u", "t", "/", "x">>}

BasenameOpts == {Undefined, Some(<<" ">>), Some(<<"m", "y">>)}

resolvedOutputDir == <<"o", "u", "t">>

\* the entries of the job data: the file each job was read from, and the job
JobEntries ==
    [path : {<<"j", "o", "b", "-", "d", "a", "t", "a", "/", "4", "2", ".json">>},
     id : {<<>>, <<"7">>, <<".", ".">>},
     link : {<<>>, <<"h", "t", "t", "p", "s", ":", "/", "/", "s", "e", "e", "k", "/job/", "9", "0", "?", "x">>},
     company : {<<"A", "c", "m", "e">>, <<"A", "&", "c">>}]

\* the applicant details file of a run
ApplicantDetails ==
    {[applicantLastName |-> <<"D", "o", "e">>,
      applicantDob |-> <<"2", "0", "0", "3", "-", "1", "2", "-", "1", "0">>],
     [applicantLastName |-> <<"D", "o", "e">>, applicantDob |-> <<>>],
     [applicantLastName |-> <<>>,
      applicantDob |-> <<"2", "0", "0", "3", "-", "1", "2", "-", "1", "0">>]}

EmptyDisk == [dirs |-> {}, files |-> <<>>]

NoFailure == <<>>

PersistIdle ==
    /\ disk = EmptyDisk
    /\ written = <<>>
    /\ failed = NoFailure

\* a caller's await writeCoverLetterToFolder(folderPath, text, opts)
WriteToFolder ==
    /\ Len(written) < MaxWrites
    /\ \E folderPath \in FolderPaths, text \in PersistTexts, basename \in BasenameOpts :
          /\ disk' = WriteCoverLetterToFolder(disk, folderPath, text, [basename |-> basename])
          /\ written' = Append(written, [by |-> "caller", folder |-> folderPath, text |-> text,
                                         basename |-> basename])
    /\ failed' = NoFailure
    /\ UNCHANGED <<svcVars, batchVars, promptVars, normVars, namingVars>>

\* the persist step of the loop in generate-from-job-data.js for one job
BatchPersist ==
    /\ Len(written) < MaxWrites
    /\ \E entry \in JobEntries, applicant \in ApplicantDetails, text \in CleanedTexts :
          LET folderName == GetJobId(entry, entry.path)
              jobFolderPath == PathJoin(resolvedOutputDir, folderName)
              fileBasename == GenerateCoverLetterBasename(entry.company, applicant)
          IN  /\ disk' = WriteCoverLetterToFolder(disk, jobFolderPath, text,
                                                  [basename |-> Some(fileBasename)])
              /\ written' = Append(written, [by |-> "batch", folder |-> jobFolderPath,
                                             text |-> text, basename |-> Some(fileBasename)])
    /\ failed' = NoFailure
    /\ UNCHANGED <<svcVars, batchVars, promptVars, normVars, namingVars>>

PersistNext == WriteToFolder \/ BatchPersist

\* a caller's await writeCoverLetterToFolder(folderPath, text, opts) throws
WriteToFolderThrows ==
    /\ Len(written) < MaxWrites
    /\ failed = NoFailure
    /\ \E folderPath \in FolderPaths, text \in CleanedTexts, basename \in BasenameOpts,
          step \in WriteSteps :
          /\ disk' = WriteCoverLetterToFolderThrows(disk, folderPath, text,
                                                    [basename |-> basename], step)
          /\ failed' = <<[before |-> disk, folder |-> folderPath, text |-> text,
                          basename |-> basename, step |-> step]>>
    /\ UNCHANGED written
    /\ UNCHANGED <<svcVars, batchVars, promptVars, normVars, namingVars>>

PersistThrowsNext == WriteToFolder \/ WriteToFolderThrows

---------------------------------------------------------------------------
(* The batch run: main() of generate-from-job-data.js.                      *)
(*                                                                         *)
(* ensureOllamaRunning and callOllamaGenerateWithRetry are taken by their   *)
(* outcomes (each returns or throws); the prompt, the cleaning, the folder, *)
(* the basename and the files are computed as the program computes them.   *)

\* the most entries in the job data
MaxJobs == 2

\* the k-th file of the job data directory
BatchPath(k) == <<"j", "o", "b", "-", "d", "a", "t", "a", "/">> \o NumberToString(k) \o <<".json">>

\* the job a file can hold; a description that is a number makes
\* (job.description || '').slice throw
BatchJobsAt(path) ==
    [path : {path},
     id : {<<>>, <<"7">>},
     link : {<<>>, <<"h", "t", "t", "p", "s", ":", "/", "/", "s", "e", "e", "k", "/job/", "9", "0">>},
     company : {<<"A", "c", "m", "e">>},
     positionName : {<<"D", "e", "v">>, <<"O", "p", "s">>},
     location : {<<>>},
     type : {<<>>},
     description : {<<"P", "a", "y">>},
     descriptionIs : {"string", "number"}]

\* loadJobData: the files of the directory in order, one job each
BatchJobLists ==
    UNION {{js \in [1..n -> UNION {BatchJobsAt(BatchPath(k)) : k \in 1..MaxJobs}] :
               \A k \in 1..n : js[k].path = BatchPath(k)} : n \in 0..MaxJobs}

BatchContext ==
    [resumeSnippet |-> <<>>, applicantName |-> <<"J", "a", "n", "e">>,
     sampleCoverLetter |-> <<>>]

BatchApplicant ==
    [applicantLastName |-> <<"D", "o", "e">>,
     applicantDob |-> <<"2", "0", "0", "3", "-", "1", "2", "-", "1", "0">>]

\* what callOllamaGenerateWithRetry(prompt) ends with
BatchOutcomes ==
    {[kind |-> "returned", text |-> t, err |-> NoErr] :
        t \in {<<"H", "i">>, <<Fence, "\n", "H", "i", "\n", Fence>>}}
    \cup {[kind |-> "threw", text |-> <<>>,
           err |-> [kind |-> "timeout", message |-> <<"timeout">>, code |-> ""]]}

TypeError == [kind |-> "TypeError", message |-> <<"slice">>, code |-> ""]
WriteError == [kind |-> "Error", message |-> <<"write">>, code |-> "EACCES"]
EnsureError == [kind |-> "Error", message |-> <<"ensure">>, code |-> ""]

Event(i, step) == [job |-> i, step |-> step]

BatchIdle ==
    /\ bPc = "off"
    /\ bJobs = <<>>
    /\ bIdx = 0
    /\ bPrompt = <<>>
    /\ bText = <<>>
    /\ bLog = <<>>
    /\ results = <<>>
    /\ exitCode = <<>>
    /\ stderr = <<>>

\* main() has loaded the job data and is about to call ensureOllamaRunning
BatchInit ==
    /\ bPc = "start"
    /\ bJobs \in BatchJobLists
    /\ bIdx = 1
    /\ bPrompt = <<>>
    /\ bText = <<>>
    /\ bLog = <<>>
    /\ results = <<>>
    /\ exitCode = <<>>
    /\ stderr = <<>>

\* the catch handler that exits with 0
BatchCatch_ExitZero(err) ==
    /\ stderr' = Append(stderr, err)
    /\ exitCode' = <<0>>
    /\ bPc' = "exited"

\* main() rejects with err: the catch handler writes it and exits with 1
BatchCatch(err) ==
    /\ stderr' = Append(stderr, err)
    /\ exitCode' = <<1>>
    /\ bPc' = "exited"

\* await ensureOllamaRunning({ spawnIfNeeded: true }) returns or throws
BatchEnsure(ok) ==
    /\ bPc = "start"
    /\ IF ok
          THEN /\ bPc' = "loop"
               /\ bLog' = Append(bLog, Event(0, "ensured"))
               /\ UNCHANGED <<exitCode, stderr>>
          ELSE /\ BatchCatch(EnsureError)
               /\ bLog' = Append(bLog, Event(0, "threw"))
    /\ UNCHANGED <<bJobs, bIdx, bPrompt, bText, results>>
    /\ UNCHANGED <<svcVars, promptVars, normVars, namingVars, persistVars>>

\* what the loop does first for entry i, in this order
StartEvents_RequestFirst(i) == <<Event(i, "request"), Event(i, "prompt")>>

StartEvents(i) == <<Event(i, "prompt"), Event(i, "request")>>

\* the loop takes the next entry: buildPromptFromTemplate(job, context), then
\* callOllamaGenerateWithRetry(prompt) is called and awaited
BatchStartJob ==
    /\ bPc = "loop"
    /\ bIdx <= Len(bJobs)
    /\ IF bJobs[bIdx].descriptionIs = "string"
          THEN /\ bPrompt' = BuildPromptFromTemplate(Undefined, bJobs[bIdx], BatchContext)
               /\ bLog' = bLog \o StartEvents(bIdx)
               /\ bPc' = "generating"
               /\ UNCHANGED <<exitCode, stderr>>
          ELSE /\ BatchCatch(TypeError)
               /\ bLog' = Append(bLog, Event(bIdx, "threw"))
               /\ UNCHANGED bPrompt
    /\ UNCHANGED <<bJobs, bIdx, bText, results>>
    /\ UNCHANGED <<svcVars, promptVars, normVars, namingVars, persistVars>>

\* the generation settles: the text is cleaned and writeCoverLetterToFolder is
\* called and awaited; or the generation threw
BatchGenerated(outcome) ==
    /\ bPc = "generating"
    /\ IF outcome.kind = "returned"
          THEN /\ bText' = PostProcessCoverLetterText(Str(outcome.text))
               /\ bLog' = bLog \o <<Event(bIdx, "response"), Event(bIdx, "normalize"),
                                    Event(bIdx, "persist")>>
               /\ bPc' = "writing"
               /\ UNCHANGED <<exitCode, stderr>>
          ELSE /\ BatchCatch(outcome.err)
               /\ bLog' = bLog \o <<Event(bIdx, "rejected"), Event(bIdx, "threw")>>
               /\ UNCHANGED bText
    /\ UNCHANGED <<bJobs, bIdx, bPrompt, results>>
    /\ UNCHANGED <<svcVars, promptVars, normVars, namingVars, persistVars>>

\* what writeCoverLetterToFolder returns
OutputPaths(folderPath, opts) ==
    LET fileBasename == Or(IF opts.basename # Undefined THEN Trim(opts.basename[1]) ELSE <<>>,
                           COVERLETTER_BASENAME)
        base == PathJoin(folderPath, fileBasename)
    IN  [txtPath |-> base \o <<".txt">>, docxPath |-> base \o <<".docx">>,
         pdfPath |-> base \o <<".pdf">>]

\* writeCoverLetterToFolder(jobFolderPath, cleaned, { basename }) returns, and
\* results.push(...); or it throws at `step`
BatchWritten(step) ==
    /\ bPc = "writing"
    /\ LET folderName == GetJobId(bJobs[bIdx], bJobs[bIdx].path)
           jobFolderPath == PathJoin(resolvedOutputDir, folderName)
           fileBasename == GenerateCoverLetterBasename(bJobs[bIdx].company, BatchApplicant)
           opts == [basename |-> Some(fileBasename)]
       IN  IF step = "none"
              THEN /\ disk' = WriteCoverLetterToFolder(disk, jobFolderPath, bText, opts)
                   /\ results' = Append(results,
                          [job |-> bIdx, entryPath |-> bJobs[bIdx].path,
                           responseText |-> bText, outputFolder |-> jobFolderPath,
                           txtPath |-> OutputPaths(jobFolderPath, opts).txtPath,
                           docxPath |-> OutputPaths(jobFolderPath, opts).docxPath,
                           pdfPath |-> OutputPaths(jobFolderPath, opts).pdfPath])
                   /\ bLog' = Append(bLog, Event(bIdx, "persisted"))
                   /\ bIdx' = bIdx + 1
                   /\ bPc' = "loop"
                   /\ UNCHANGED <<exitCode, stderr>>
              ELSE /\ disk' = WriteCoverLetterToFolderThrows(disk, jobFolderPath, bText,
                                                            opts, step)
                   /\ BatchCatch(WriteError)
                   /\ bLog' = Append(bLog, Event(bIdx, "threw"))
                   /\ UNCHANGED <<bIdx, results>>
    /\ UNCHANGED <<bJobs, bPrompt, bText, written, failed>>
    /\ UNCHANGED <<svcVars, promptVars, normVars, namingVars>>

\* the loop is through: the summary is logged, main() resolves and the process
\* exits with 0
BatchFinish ==
    /\ bPc = "loop"
    /\ bIdx > Len(bJobs)
    /\ bPc' = "done"
    /\ exitCode' = <<0>>
    /\ UNCHANGED <<bJobs, bIdx, bPrompt, bText, bLog, results, stderr>>
    /\ UNCHANGED <<svcVars, promptVars, normVars, namingVars, persistVars>>

BatchNext ==
    \/ \E ok \in BOOLEAN : BatchEnsure(ok)
    \/ BatchStartJob
    \/ \E outcome \in BatchOutcomes : BatchGenerated(outcome)
    \/ \E step \in WriteSteps \cup {"none"} : BatchWritten(step)
    \/ BatchFinish

---------------------------------------------------------------------------
(* Specifications *)

DocIdle == PromptIdle /\ NormIdle /\ NamingIdle /\ PersistIdle /\ BatchIdle

Init == RetryIdle /\ GenIdle /\ MgrIdle /\ DocIdle

SpecRetry == Init /\ [][RetryNext]_vars

InitRetryEnv == RetryEnvInit /\ GenIdle /\ MgrIdle /\ DocIdle

SpecRetryEnv == InitRetryEnv /\ [][RetryNext]_vars

SpecGenerate == Init /\ [][GenNext]_vars

InitManager == RetryIdle /\ GenIdle /\ MgrInit /\ DocIdle

SpecManager == InitManager /\ [][MgrNext]_vars

InitMain == RetryIdle /\ GenIdle /\ MainInit /\ DocIdle

\* the event loop keeps running: a callback that is due is run
SpecMain == InitMain /\ [][MainNext]_vars /\ WF_vars(MainNext)

InitPrompt == RetryIdle /\ GenIdle /\ MgrIdle /\ PromptInit /\ NormIdle /\ NamingIdle /\ PersistIdle /\ BatchIdle

SpecPrompt == InitPrompt /\ [][PromptNext]_vars

InitNormalize == RetryIdle /\ GenIdle /\ MgrIdle /\ PromptIdle /\ NormInit /\ NamingIdle /\ PersistIdle /\ BatchIdle

SpecNormalize == InitNormalize /\ [][NormNext]_vars

InitNaming == RetryIdle /\ GenIdle /\ MgrIdle /\ PromptIdle /\ NormIdle /\ NamingInit /\ PersistIdle /\ BatchIdle

SpecNaming == InitNaming /\ [][NamingNext]_vars

SpecPersist == Init /\ [][PersistNext]_vars

SpecPersistThrows == Init /\ [][PersistThrowsNext]_vars

InitBatch ==
    /\ RetryIdle /\ GenIdle /\ MgrIdle
    /\ PromptIdle /\ NormIdle /\ NamingIdle /\ PersistIdle /\ BatchInit

SpecBatch == InitBatch /\ [][BatchNext]_vars

---------------------------------------------------------------------------
(* Claims about the retry policy *)

\* N, the configured number of retries
ConfiguredRetries == Nullish(rOpts.retryAttempts, OLLAMA_RETRY_ATTEMPTS[1])

AllRejected(n) == \A i \in 1..n : callLog[i].kind = "reject"

\* C1: with N >= 0 configured retries callOllamaGenerateWithRetry makes at most
\* N+1 calls, every call before the last one failed (it stops at the first
\* success) and it returns the text of the call that succeeded; it throws only
\* after exactly N+1 failed calls, and then the error of the last call,
\* unchanged, whatever the errors were; N = 0 gives exactly one call.
C1_RetryAttempts ==
    (rPc # "idle" /\ ConfiguredRetries >= 0) =>
        /\ Len(callLog) <= ConfiguredRetries + 1
        /\ AllRejected(Len(callLog) - 1)
        /\ rPc = "returned" =>
              /\ callLog[Len(callLog)].kind = "resolve"
              /\ rResult = [kind |-> "returned", text |-> callLog[Len(callLog)].text,
                            err |-> NoErr]
        /\ rPc = "threw" =>
              /\ Len(callLog) = ConfiguredRetries + 1
              /\ AllRejected(Len(callLog))
              /\ rResult = [kind |-> "threw", text |-> <<>>,
                            err |-> callLog[Len(callLog)].err]
        /\ rPc \in {"calling", "sleeping"} => AllRejected(Len(callLog))
        /\ (ConfiguredRetries = 0 /\ rPc \in {"returned", "threw"}) => Len(callLog) = 1

\* two retries, three failed calls of different kinds, the last error thrown
C1_Witness ==
    /\ rPc = "threw"
    /\ ConfiguredRetries = 2
    /\ Len(callLog) = 3
    /\ callLog[1].err # callLog[3].err
    /\ callLog[2].err # callLog[3].err

\* the configured length of the delay
ConfiguredDelay ==
    IF rOpts.retryDelayMs = Undefined THEN OLLAMA_RETRY_DELAY_MS ELSE rOpts.retryDelayMs[1]

\* C22: between two consecutive attempts exactly one delay of the configured
\* length elapses, the same for every retry whatever the error was; there is no
\* delay before the first attempt, after a successful attempt or after the
\* final failed attempt.
C22_FixedDelay ==
    /\ \A i \in 1..Len(sleeps) : sleeps[i] = ConfiguredDelay
    /\ rPc = "calling" => Len(sleeps) = Len(callLog)
    /\ rPc \in {"sleeping", "returned", "threw"} => Len(sleeps) = Len(callLog) - 1

\* three failed attempts with errors of different kinds and two equal delays
C22_Witness ==
    /\ rPc = "threw"
    /\ Len(callLog) = 3
    /\ Len(sleeps) = 2
    /\ callLog[1].err.code # callLog[2].err.code
    /\ sleeps[1] = OLLAMA_RETRY_DELAY_MS

\* C29: for every value of the retry configuration, a negative number and a
\* non-numeric OLLAMA_RETRY_ATTEMPTS included, at least one backend call is
\* made, and a rejection carries the error of an attempt that was made.
C29_AtLeastOneCall ==
    rPc \in {"returned", "threw"} =>
        /\ Len(callLog) >= 1
        /\ rPc = "threw" =>
              /\ rResult.err.kind # "undefined"
              /\ \E i \in 1..Len(callLog) : callLog[i].err = rResult.err

---------------------------------------------------------------------------
(* Claims about the Ollama lifecycle *)

\* the probe's GET received an HTTP status below 500
StatusBelow500(o) == o.type = "status" /\ o.status < 500

\* the children spawned by the program that are alive
LiveChildren == {p \in Pids : Live(p)}

\* C2 as stated: at most one spawned child is alive at any time, and a call of
\* ensureOllamaRunning that starts after an earlier call has returned spawns
\* no child.
C2_OneSubprocess ==
    /\ Cardinality(LiveChildren) <= 1
    /\ \A c \in Callers : callers[c].afterReady => callers[c].spawned = 0

\* C3 as stated: of two calls of ensureOllamaRunning that are in flight together
\* while no server answers at the base URL, at most one has spawned a child.
C3_SingleFlight ==
    \A c, d \in Callers :
        (c # d /\ Awaiting(c) /\ Awaiting(d) /\ ~externalUp)
            => ~(callers[c].spawned # 0 /\ callers[d].spawned # 0)

\* what C4 says of the caller c in one state
C4_Call(c) ==
    LET cr == callers[c] IN
    /\ cr.spawned # 0 => cr.spawnIfNeeded
    /\ cr.pc = "spawnWait" => (cr.probe # NoProbe /\ ~StatusBelow500(cr.probe))
    /\ (HasSettled(c) /\ cr.spawned = 0 /\ StatusBelow500(cr.probe))
            => cr.result = Returned(FALSE)
    /\ (HasSettled(c) /\ cr.spawned = 0 /\ ~StatusBelow500(cr.probe))
            => /\ ~cr.spawnIfNeeded
               /\ cr.probe \in {ConnError, ProbeTimeout} \/ cr.probe.status >= 500
               /\ cr.result.kind = "error"
               /\ cr.result.message = UnavailableMessage
               /\ Includes(cr.result.message, <<OLLAMA_BASE_URL>>)

\* the step in which a call settles on the result of its first probe leaves the
\* handle and the children as they are
C4_Step(c) ==
    (callers[c].pc = "probe" /\ callers'[c].pc \in {"returned", "threw"})
        => (ollamaProcess' = ollamaProcess /\ child' = child)

\* C4: ensureOllamaRunning spawns only when its probe found no server and
\* spawning is allowed: a probe answered with a status below 500 gives
\* { startedByUs: false } and no spawn; a probe that ends in a connection error,
\* a timeout or a status of 500 or more, with spawning disallowed, throws the
\* error that names the base URL, spawns nothing and leaves the handle unchanged.
C4_SpawnOnlyWhenUnreachable ==
    /\ [](\A c \in Callers : C4_Call(c))
    /\ [][\A c \in Callers : C4_Step(c)]_vars

C4_Witness ==
    \E c \in Callers :
        /\ callers[c].probe = Status(500)
        /\ ~callers[c].spawnIfNeeded
        /\ callers[c].result = Threw(UnavailableMessage)
        /\ ollamaProcess # 0

\* what C5 says of the caller c in one state
C5_Call(c) ==
    LET cr == callers[c] IN
    /\ InWaitLoop(c) => (cr.spawned # 0 /\ cr.left >= 0 - ProbeTimeoutMs)
    /\ cr.pc = "pollProbe" => cr.left >= 0
    /\ cr.pc = "pollSleep" => ~IsOllamaRunning(cr.probe) /\ ~StatusBelow500(cr.probe)
    /\ cr.result = Returned(TRUE) => (cr.spawned # 0 /\ StatusBelow500(cr.probe))
    /\ cr.result = Threw(StartTimeoutMessage(OLLAMA_READY_TIMEOUT_MS))
            => (cr.left < 0 /\ ~StatusBelow500(cr.probe))

\* the next poll comes OLLAMA_POLL_MS after a probe that failed
C5_Step(c) ==
    (callers[c].pc = "pollSleep" /\ callers'[c].pc # "pollSleep")
        => callers'[c].left = callers[c].left - OLLAMA_POLL_MS

\* C5: after the spawn ensureOllamaRunning probes at a fixed interval and always
\* settles: it returns { startedByUs: true } on the first probe that succeeds,
\* it throws the readiness timeout only once the deadline has passed and the
\* last probe failed, and the wait never goes on past the deadline.
C5_ReadinessWait ==
    /\ [](\A c \in Callers : C5_Call(c))
    /\ [][\A c \in Callers : C5_Step(c)]_vars
    /\ \A c \in Callers : (callers[c].pc = "spawnWait") ~> HasSettled(c)

C5_Witness ==
    \E c \in Callers :
        /\ callers[c].result = Threw(StartTimeoutMessage(OLLAMA_READY_TIMEOUT_MS))
        /\ callers[c].left = 0 - OLLAMA_POLL_MS

\* C6 as stated: a child is killed only if the program spawned it and
\* COVER_LETTER_STOP_OLLAMA=1 is set, whether the run succeeds or fails.
C6_KillOnlyOnRequest ==
    \A p \in killed : child[p] # "unborn" /\ stopFlag

\* a call of cleanupOllamaIfStarted(): it kills at most the child in the handle,
\* a child this program spawned, and leaves nothing for a next cleanup to kill
C23_Step ==
    CleanupCall =>
        /\ CleanupTarget' = 0
        /\ CleanupTarget # 0 => child[CleanupTarget] # "unborn"
        /\ \A p \in Pids : p # CleanupTarget => child'[p] = child[p]
        /\ killed' \subseteq killed \cup {CleanupTarget}

\* C23: cleanup can be called any number of times, also after a failed
\* ensureRunning, without raising an error; a second consecutive cleanup
\* changes nothing: it kills no process again and touches no process other
\* than the one this manager spawned.
C23_Idempotent == [][C23_Step]_vars

\* a cleanup has killed the child of a call that failed (the server never got
\* ready), the handle is cleared and the callers are between their calls
C23_Witness ==
    /\ stopFlag
    /\ ~everReady
    /\ ollamaProcess = 0
    /\ \E p \in killed : child[p] = "dying"
    /\ \A c \in Callers : callers[c].pc = "idle"

\* C28: the process handle is set if and only if a subprocess this manager
\* spawned is alive and has not been killed by cleanup; the exit of one
\* subprocess never clears the handle of a subprocess spawned later.  (A
\* handle on a child whose spawn failed, until its error event, is let pass.)
C28_HandleIffLive ==
    /\ ollamaProcess # 0 =>
           /\ child[ollamaProcess] \in {"starting", "serving", "enoent"}
           /\ ollamaProcess \notin killed
    /\ (\E p \in Pids : Live(p) /\ p \notin killed) => ollamaProcess # 0

\* C24: in a batch run with the teardown flag set, if the manager spawned the
\* backend then on every way the run can end (all jobs done, a generation or
\* write failure, a failure of ensureRunning such as the readiness timeout)
\* the spawned subprocess has been terminated before the process exits.
C24_TerminatedAtExit ==
    (mode = "cli" /\ stopFlag /\ mainPc \in {"done", "exited"}) =>
        \A p \in Pids : ~Live(p)

---------------------------------------------------------------------------
(* Claims about the generation client *)

Settled == promise.state \in {"fulfilled", "rejected"}

\* the promise was settled by the 'end' handler of a response with this status
EndedWith(status) == gSettledBy = "end" /\ gStatus = status

\* the first n lexemes of the body the backend sent
BodyPrefix(n) == SubSeq(gBody, 1, Min(n, Len(gBody)))

\* C7: a response whose status is not 200 rejects the promise (it never
\* resolves with text); the error message contains the status code and the
\* first 300 characters of the body and nothing more of the body.
C7_StatusError ==
    /\ promise.state = "fulfilled" => gStatus = 200
    /\ (gSettledBy = "end" /\ gStatus # 200) =>
        /\ promise.state = "rejected"
        /\ Includes(promise.err.message, <<ToString(gStatus)>>)
        /\ Includes(promise.err.message, BodyPrefix(300))
        /\ Len(gBody) > 300 => ~Includes(promise.err.message, BodyPrefix(301))
        /\ Len(promise.err.message) <= 300 + 6

\* status 500 with a body longer than 300 characters
C7_Witness ==
    /\ EndedWith(500)
    /\ Len(gBody) > 300
    /\ promise.state = "rejected"

HasHint(msg) == \E i \in 1..Len(msg) : msg[i] = "\nPull a model first, e.g.: ollama pull "

\* the body mentions the requested model
MentionsModel == Includes(gBody, <<gModel>>)

IsInvalidResponse(p) ==
    p.state = "rejected" /\ Includes(p.err.message, <<"Ollama returned invalid JSON: ">>)

\* C9 as stated: on status 200 the promise resolves with the trimmed text field;
\* it resolves with the empty string when the parsed body has no text field
\* and rejects with InvalidResponse when the body cannot be parsed.
C9_SuccessText ==
    EndedWith(200) =>
        LET data == JSONParse(gBody) IN
        IF ~data.ok THEN IsInvalidResponse(promise)
        ELSE IF data.response.type \in {"undefined", "null"}
            THEN promise.state = "fulfilled" /\ promise.text = <<>>
        ELSE /\ promise.state = "fulfilled"
             /\ promise.text = Trim(data.response.str)

\* C10: once settled, the promise never changes (a later end, error or timeout
\* event leaves the outcome as it is); a timeout that fires while the promise
\* is pending destroys the request and rejects with a message naming the
\* budget; and no request is in flight once the promise is settled.
C10_SettlesOnce ==
    [][/\ Settled => promise' = promise
       /\ ("timeout" \notin gEvents /\ "timeout" \in gEvents' /\ promise.state = "pending") =>
            /\ promise'.state = "rejected"
            /\ Includes(promise'.err.message, <<"Ollama generate timed out after ">>)
            /\ Includes(promise'.err.message, <<ToString(gTimeout)>>)
            /\ gPc' = "destroyed"
       /\ (promise'.state \in {"fulfilled", "rejected"}) => gPc' # "inflight"]_vars

\* the timeout settled the call, and the response's end arrived afterwards
C10_Witness ==
    /\ gSettledBy = "timeout"
    /\ "end" \in gEvents
    /\ gStatus = 200
    /\ promise.state = "rejected"

---------------------------------------------------------------------------
(* Claims about the prompt assembler *)

\* the first n characters of s
FirstChars(s, n) == [i \in 1..Min(n, Len(s)) |-> s[i]]

Placeholders == {Placeholder[PromptKeys[k]] : k \in 1..Len(PromptKeys)}

KeyOf(lexeme) == CHOOSE k \in 1..Len(PromptKeys) : Placeholder[PromptKeys[k]] = lexeme

RECURSIVE FilledIn(_, _)
\* the template with each of its placeholders giving way to the value of its
\* field, and nothing else changed
FilledIn(template, values) ==
    IF template = <<>> THEN <<>>
    ELSE (IF Head(template) \in Placeholders
          THEN values[PromptKeys[KeyOf(Head(template))]]
          ELSE <<Head(template)>>) \o FilledIn(Tail(template), values)

HasPlaceholder(s) == \E i \in 1..Len(s) : s[i] \in Placeholders

\* no field of the arguments holds placeholder-shaped text
PlainArguments ==
    /\ \A f \in DOMAIN job : ~HasPlaceholder(job[f])
    /\ \A f \in DOMAIN context : ~HasPlaceholder(context[f])

\* the values the prompt shows: the description and the resume cut to their
\* first 12,000 and 3,000 characters
CutValues ==
    [PromptVars(job, context) EXCEPT
        !.description = FirstChars(job.description, DescriptionLimit),
        !.resumeSnippet = IF context.resumeSnippet = <<>> THEN NotProvided
                          ELSE FirstChars(context.resumeSnippet, ResumeLimit)]

C12_Verbatim ==
    prompt # Undefined => prompt[1] = FilledIn(promptFile[1], PromptVars(job, context))

---------------------------------------------------------------------------
(* Claims about the post-processor *)

RECURSIVE Squeezed(_)
\* s without every newline that follows two newlines
Squeezed(s) ==
    IF s = <<>> THEN <<>>
    ELSE LET n == Len(s)
         IN  Squeezed(SubSeq(s, 1, n - 1))
                 \o (IF n >= 3 /\ s[n] = "\n" /\ s[n - 1] = "\n" /\ s[n - 2] = "\n"
                     THEN <<>> ELSE <<s[n]>>)

\* t with its newline runs cut to two and its end made one newline
Finished(t) ==
    LET body == TrimEnd(Squeezed(t))
    IN  IF body = <<>> THEN <<>> ELSE body \o <<"\n">>

HasFence(s) == \E i \in 1..Len(s) : s[i] = Fence

\* the text starts with a fence and ends with one
FenceAtBothEnds(t) == Len(t) >= 2 /\ t[1] = Fence /\ t[Len(t)] = Fence

\* C13: a fence wrapper is removed only when the whole trimmed text is one
\* fenced block; when fences enclose only part of the text (the trimmed text
\* does not both start and end with a fence), nothing outside or inside them is
\* dropped: the result is the trimmed text, normalised, fences included.
C13_FenceOnlyWhenWhole ==
    cleaned # Undefined /\ rawText.typeof = "string" =>
        LET t == Trim(rawText.value)
        IN  ~FenceAtBothEnds(t) => cleaned[1] = Finished(t)

\* C14: normalize never fails (it yields a string for every argument); it
\* returns the empty string for a non-string, an empty or a whitespace-only
\* input; every result is empty or ends with exactly one newline.
C14_Total ==
    /\ PostProcessCoverLetterText(rawText) \in Seq(RawChars)
    /\ cleaned # Undefined =>
          /\ rawText.typeof # "string" => cleaned[1] = <<>>
          /\ rawText.typeof = "string" /\ Trim(rawText.value) = <<>> => cleaned[1] = <<>>
          /\ \/ cleaned[1] = <<>>
             \/ /\ Len(cleaned[1]) >= 2
                /\ cleaned[1][Len(cleaned[1])] = "\n"
                /\ cleaned[1][Len(cleaned[1]) - 1] # "\n"

\* a whitespace-only text was normalised
C14_Witness ==
    /\ cleaned = Some(<<>>)
    /\ rawText.typeof = "string"
    /\ rawText.value # <<>>
    /\ Trim(rawText.value) = <<>>

NoLongRun(s) ==
    \A i \in 1..(Len(s) - 2) : ~(s[i] = "\n" /\ s[i + 1] = "\n" /\ s[i + 2] = "\n")

---------------------------------------------------------------------------
(* Claims about the naming policy *)

HasWhiteSpace(s) == \E i \in 1..Len(s) : s[i] \in WhiteSpace

EndsWith(s, suffix) ==
    Len(s) >= Len(suffix) /\ SubSeq(s, Len(s) - Len(suffix) + 1, Len(s)) = suffix

\* the company without its whitespace and without any character that is not a
\* word character or a hyphen; the literal Company when nothing is left
CompanyComponent ==
    LET kept == SelectSeq(namingArgs.company,
                          LAMBDA c : c \notin WhiteSpace /\ c \in WordChars \cup {"-"})
    IN  IF kept = <<>> THEN <<"C", "o", "m", "p", "a", "n", "y">> ELSE kept

\* C19: both naming schemes give a name without whitespace; the company
\* component is the company with whitespace and non-word, non-hyphen characters
\* removed, or the literal Company when that is blank; the last-name component
\* has no whitespace.
C19_NoWhiteSpace ==
    names # Undefined =>
        /\ ~HasWhiteSpace(names[1].basename)
        /\ ~HasWhiteSpace(names[1].folderName)
        /\ ~HasWhiteSpace(names[1].filename)
        /\ EndsWith(names[1].basename, <<".">> \o CompanyComponent)
        /\ EndsWith(names[1].folderName, <<".", "C", "L", ".">> \o CompanyComponent)

\* the decimal digits of s, in order
DigitsOf(s) == SelectSeq(s, LAMBDA c : \E d \in 1..10 : Digit[d] = c)

\* C20: the first component of the identity-based name is exactly six decimal
\* digits: the last six digits of the birth date whatever its separators, or
\* 000000 when the birth date has fewer than six digits.
C20_SixDigits ==
    names # Undefined =>
        LET d == DigitsOf(namingArgs.applicantDob)
        IN  SubSeq(names[1].basename, 1, 7) =
                (IF Len(d) >= 6 THEN SubSeq(d, Len(d) - 5, Len(d))
                 ELSE <<"0", "0", "0", "0", "0", "0">>) \o <<".">>

---------------------------------------------------------------------------
(* Claims about the output writer *)

\* the basename a call's files carry
BasenameOf(call) ==
    IF call.basename = Undefined \/ Trim(call.basename[1]) = <<>> THEN COVERLETTER_BASENAME
    ELSE Trim(call.basename[1])

FileOf(call, ext) == call.folder \o <<"/">> \o BasenameOf(call) \o <<ext>>

SameTarget(c, d) == c.folder = d.folder /\ BasenameOf(c) = BasenameOf(d)

\* the k-th call is the most recent one on its folder and basename
MostRecent(k) == \A h \in (k + 1)..Len(written) : ~SameTarget(written[h], written[k])

\* after the calls made so far, every folder written to exists and holds the
\* three files of each basename, the .txt with exactly the most recent text
C16_Holds ==
    \A k \in 1..Len(written) :
        /\ written[k].folder \in disk.dirs
        /\ {FileOf(written[k], ".txt"), FileOf(written[k], ".docx"),
            FileOf(written[k], ".pdf")} \subseteq DOMAIN disk.files
        /\ MostRecent(k) => disk.files[FileOf(written[k], ".txt")] = written[k].text

\* a call that repeats the call before it leaves the disk as it was
C16_Repeat ==
    (/\ Len(written) >= 1
     /\ Len(written') = Len(written) + 1
     /\ written'[Len(written')] = written[Len(written)]) => disk' = disk

\* C16: after any sequence of persist calls on the same folder and basename the
\* folder holds basename.txt, .docx and .pdf, and the .txt contains exactly the
\* most recent text (replaced, never appended); repeating a call changes nothing.
C16_Persist == []C16_Holds /\ [][C16_Repeat]_vars

\* two calls on one folder and basename, with different texts
C16_Witness ==
    /\ Len(written) = 2
    /\ SameTarget(written[1], written[2])
    /\ written[1].text # <<>>
    /\ written[2].text # written[1].text
    /\ disk.files[FileOf(written[2], ".txt")] = written[2].text

\* the lines of the text, a blank one shown as one space
ShownLines(text) ==
    [i \in 1..Len(Split(text)) |-> IF Split(text)[i] = <<>> THEN <<" ">> ELSE Split(text)[i]]

\* C17: the .docx and the .pdf render the same sequence of lines as the text
\* split on newlines; every blank line, leading and trailing ones included, is
\* kept as a (blank) paragraph or line.
C17_SameLines ==
    \A k \in 1..Len(written) :
        MostRecent(k) =>
            /\ disk.files[FileOf(written[k], ".docx")] = ShownLines(written[k].text)
            /\ disk.files[FileOf(written[k], ".pdf")] = ShownLines(written[k].text)

\* the files the disk holds in a folder
FilesIn(folder) ==
    {p \in DOMAIN disk.files :
        Len(p) > Len(folder) + 1 /\ SubSeq(p, 1, Len(folder) + 1) = folder \o <<"/">>}

\* C18: after any sequence of batch runs for a job, the job's folder contains
\* exactly three files (sharing one basename), also when the last name, the
\* birth date or the company differ between the runs.
C18_ThreeFiles ==
    \A k \in 1..Len(written) :
        written[k].by = "batch" => Cardinality(FilesIn(written[k].folder)) = 3

\* C27: if a persist call fails part-way, then after it the three files all
\* still represent the text they represented before the call.
C27_FilesAsBefore ==
    failed # NoFailure =>
        \A ext \in {".txt", ".docx", ".pdf"} :
            FileOf(failed[1], ext) \in DOMAIN failed[1].before.files =>
                disk.files[FileOf(failed[1], ext)] =
                    failed[1].before.files[FileOf(failed[1], ext)]

\* the name of the folder of a batch call, below the output directory
FolderNameOf(call) == SubSeq(call.folder, Len(resolvedOutputDir) + 2, Len(call.folder))

\* a single path component: no separator in it, and not ..
SingleComponent(name) ==
    /\ \A i \in 1..Len(name) : name[i] # "/"
    /\ name # <<".", ".">>

\* C30: every file a batch run writes lies inside the output directory: the
\* folder name from getJobId and the basename are each a single path
\* component, with no separator in it and not ..
C30_InsideOutputDir ==
    \A k \in 1..Len(written) :
        written[k].by = "batch" =>
            /\ SingleComponent(FolderNameOf(written[k]))
            /\ SingleComponent(BasenameOf(written[k]))

---------------------------------------------------------------------------
(* Claims about the batch run *)

\* where in the log the loop did `step` for entry i
Pos(i, step) == {k \in 1..Len(bLog) : bLog[k] = Event(i, step)}

Before(a, b) == \A k \in a, l \in b : k < l

RunThrew == \E k \in 1..Len(bLog) : bLog[k].step = "threw"

\* the entry a run failed at (0: before the loop)
FailedAt == bLog[Len(bLog)].job

\* the error of the step the run failed at
TriggeringError ==
    IF FailedAt = 0 THEN EnsureError
    ELSE IF Pos(FailedAt, "rejected") # {}
         THEN CHOOSE e \in {o.err : o \in {b \in BatchOutcomes : b.kind = "threw"}} : TRUE
    ELSE IF Pos(FailedAt, "persist") # {} THEN WriteError
    ELSE TypeError

\* no other entry of the batch has the folder of entry i
OwnFolder(i) ==
    \A j \in 1..Len(bJobs) :
        j # i => GetJobId(bJobs[j], bJobs[j].path) # GetJobId(bJobs[i], bJobs[i].path)

\* C21: a batch run exits with code 0 only if every job's prompt, generate
\* and persist chain completed; if any step fails the run stops at that job,
\* processes no later job, leaves the artifacts of earlier jobs in place,
\* writes the triggering error to standard error and exits with a non-zero
\* code.
C21_ExitCode ==
    /\ exitCode = <<0>> =>
           \A i \in 1..Len(bJobs) :
               /\ Pos(i, "prompt") # {}
               /\ Pos(i, "response") # {}
               /\ Pos(i, "persisted") # {}
    /\ RunThrew =>
           /\ bPc = "exited"
           /\ exitCode # <<>> /\ exitCode # <<0>>
           /\ bLog[Len(bLog)].step = "threw"
           /\ \A k \in 1..Len(bLog) : bLog[k].job <= FailedAt
           /\ stderr = <<TriggeringError>>
           /\ \A r \in 1..Len(results) :
                 /\ results[r].job < FailedAt
                 /\ {results[r].txtPath, results[r].docxPath, results[r].pdfPath}
                        \subseteq DOMAIN disk.files
                 /\ OwnFolder(results[r].job) =>
                        disk.files[results[r].txtPath] = results[r].responseText
    /\ exitCode # <<>> => bPc \in {"done", "exited"}

\* the second entry's generation failed after the first entry was written
C21_Witness ==
    /\ Len(bJobs) = 2
    /\ exitCode = <<1>>
    /\ Len(results) = 1
    /\ Pos(2, "rejected") # {}
    /\ stderr[1].kind = "timeout"
    /\ results[1].txtPath \in DOMAIN disk.files

\* the steps of an entry's chain, in order
ChainSteps == <<"prompt", "request", "response", "normalize", "persist", "persisted">>

\* how many generation requests are unanswered after the first k log entries
InFlight(k) ==
    Cardinality({h \in 1..k : bLog[h].step = "request"})
        - Cardinality({h \in 1..k : bLog[h].step \in {"response", "rejected"}})

\* C25: no generation request is sent before ensureRunning has returned
\* successfully; for each job the steps run in the order build prompt,
\* generate, normalize, persist; nothing is persisted for a job whose
\* generation failed; the next job's chain does not start before the previous
\* job's persist has completed; at most one generation request is in flight.
C25_Order ==
    /\ \A k \in 1..Len(bLog) :
           bLog[k].step = "request" => \E h \in 1..(k - 1) : bLog[h] = Event(0, "ensured")
    /\ \A i \in 1..Len(bJobs) :
           /\ \A n \in 1..Len(ChainSteps) : Cardinality(Pos(i, ChainSteps[n])) <= 1
           /\ \A n \in 2..Len(ChainSteps) :
                  Pos(i, ChainSteps[n]) # {} =>
                      /\ Pos(i, ChainSteps[n - 1]) # {}
                      /\ Before(Pos(i, ChainSteps[n - 1]), Pos(i, ChainSteps[n]))
           /\ Pos(i, "rejected") # {} =>
                  /\ Pos(i, "persist") = {}
                  /\ \A r \in 1..Len(results) : results[r].job # i
           /\ (i > 1 /\ Pos(i, "prompt") # {}) =>
                  /\ Pos(i - 1, "persisted") # {}
                  /\ Before(Pos(i - 1, "persisted"), Pos(i, "prompt"))
    /\ \A k \in 0..Len(bLog) : InFlight(k) \in {0, 1}

\* a run of two entries that wrote both
C25_Witness ==
    /\ Len(results) = 2
    /\ exitCode = <<0>>
    /\ Pos(2, "persisted") # {}

\* entries i and j hold different jobs, not one job in two files
DistinctJobs(i, j) ==
    [bJobs[i] EXCEPT !.path = <<>>] # [bJobs[j] EXCEPT !.path = <<>>]

\* C26: two distinct job records of one batch never write to the same file
\* path, also when they share a company, an id or a link.
C26_DistinctPaths ==
    \A k, l \in 1..Len(results) :
        (k # l /\ DistinctJobs(results[k].job, results[l].job)) =>
            /\ results[k].txtPath # results[l].txtPath
            /\ results[k].docxPath # results[l].docxPath
            /\ results[k].pdfPath # results[l].pdfPath

============================================================================
